---- MODULE Spec2Model ----
(***************************************************************************)
(* Model of the LLM provider adapters of vscode-llm-pair:                  *)
(*   OllamaProvider  (listModels, generateChatCompletion,                  *)
(*                    streamChatCompletion)                                *)
(*   OpenAIProvider  (generateChatCompletion, streamChatCompletion)        *)
(* A call of one operation runs on a provider instance; the transport      *)
(* (fetch, the body reader, the SDK) is the environment and is scripted by *)
(* the variable server plus nondeterministic failures.                     *)
(*   Spec          one call, default request, every backend answer          *)
(*   SpecRequests  one call, every request, one answer of each kind        *)
(*   SpecSeq       calls one after another on one instance                 *)
(*   SpecPair      two streaming calls at once on one instance             *)
(*   SpecCallback  a streaming call whose callback may throw              *)
(* and of the extension host around them:                                  *)
(*   SpecChat      the ChatViewProvider and its webview script; the        *)
(*                 provider is its interface (onChunk calls, then the      *)
(*                 promise settles)                                        *)
(*   SpecChatFair  SpecChat with messages delivered and calls settling     *)
(*   SpecInit      activate, the configuration listener and the runs of    *)
(*                 initializeLLMProvider                                   *)
(*   SpecServe     SpecInit together with a chat view in use               *)
(*                                                                         *)
(* Text is a sequence of characters, the response body a sequence of      *)
(* bytes.  The JSON frames of the Ollama stream are abbreviated:           *)
(*   "{" c1 .. cn "}"   stands for {"message":{"content":"c1..cn"}}        *)
(*   "{" "d" "}"        stands for {"done":true}                           *)
(* and the two bytes xC3 xA9 encode the one character E9.                  *)
(***************************************************************************)
EXTENDS Integers, Sequences, FiniteSets, TLC

\* ------------------------------------------------------------ bounds
MaxLines == 3
MaxIncs == 3
MaxModels == 2
MaxChoices == 2
MaxMessages == 2
MaxCalls == 2
MaxCallbackLines == 2
MaxSends == 2
MaxChunks == 2
MaxClears == 1
MaxChanges == 2

\* ------------------------------------------------------------ text helpers
NL == "\n"
SP == " "
ReplacementChar == "FFFD"
ContentChars == {"a", "b", "E9", ReplacementChar}

RECURSIVE Flatten(_)
Flatten(ss) == IF ss = <<>> THEN <<>> ELSE Head(ss) \o Flatten(Tail(ss))

\* mutant: the decoder is kept between calls
TextDecoderKept(previous) == previous

\* new TextDecoder(): a new decoder holds no bytes, whatever an earlier one held
TextDecoder(previous) == <<>>

\* TextDecoder.decode(value, {stream: true}): an incomplete multi-byte
\* sequence at the end of the input is kept for the next call.
RECURSIVE Utf8Decode(_)
Utf8Decode(bytes) ==
  IF bytes = <<>> THEN [text |-> <<>>, pending |-> <<>>]
  ELSE IF Head(bytes) = "xC3"
    THEN IF Len(bytes) = 1 THEN [text |-> <<>>, pending |-> bytes]
         ELSE IF bytes[2] = "xA9"
           THEN LET r == Utf8Decode(SubSeq(bytes, 3, Len(bytes)))
                IN [text |-> <<"E9">> \o r.text, pending |-> r.pending]
           ELSE LET r == Utf8Decode(Tail(bytes))
                IN [text |-> <<ReplacementChar>> \o r.text, pending |-> r.pending]
  ELSE LET r == Utf8Decode(Tail(bytes))
           c == IF Head(bytes) = "xA9" THEN ReplacementChar ELSE Head(bytes)
       IN [text |-> <<c>> \o r.text, pending |-> r.pending]

\* mutant: decode(value) without {stream: true}: every chunk is decoded by
\* itself and an incomplete sequence at its end becomes U+FFFD
decoder_decodeEachChunk(pending, value) ==
  LET r == Utf8Decode(value)
  IN [text |-> r.text \o (IF r.pending = <<>> THEN <<>> ELSE <<ReplacementChar>>),
      pending |-> <<>>]

decoder_decode(pending, value) == Utf8Decode(pending \o value)

\* String.prototype.split('\n'): k newlines give k + 1 segments.
RECURSIVE split(_)
split(text) ==
  IF \A i \in 1..Len(text) : text[i] # NL THEN <<text>>
  ELSE LET i == CHOOSE j \in 1..Len(text) :
                  text[j] = NL /\ \A k \in 1..(j - 1) : text[k] # NL
       IN <<SubSeq(text, 1, i - 1)>> \o split(SubSeq(text, i + 1, Len(text)))

RECURSIVE trimStart(_)
trimStart(s) == IF s # <<>> /\ Head(s) \in {SP, NL} THEN trimStart(Tail(s)) ELSE s

RECURSIVE trimEnd(_)
trimEnd(s) ==
  IF s # <<>> /\ s[Len(s)] \in {SP, NL} THEN trimEnd(SubSeq(s, 1, Len(s) - 1)) ELSE s

trim(s) == trimEnd(trimStart(s))

\* mutant: only the first line of a chunk is kept
chunkLinesFirst(text) ==
  LET ls == SelectSeq(split(text), LAMBDA line : trim(line) # <<>>)
  IN IF ls = <<>> THEN <<>> ELSE <<Head(ls)>>

\* chunk.split('\n').filter(line => line.trim())
chunkLines(text) == SelectSeq(split(text), LAMBDA line : trim(line) # <<>>)

\* JSON.parse(line) on the abbreviated frames.  Surrounding whitespace is
\* JSON whitespace; anything that is not one whole frame is a SyntaxError.
JSON_parse(line) ==
  LET t == trim(line)
      n == Len(t)
  IN IF n >= 2 /\ t[1] = "{" /\ t[n] = "}"
       THEN LET mid == SubSeq(t, 2, n - 1)
            IN IF mid = <<"d">>
                 THEN [ok |-> TRUE, hasMessage |-> FALSE, content |-> <<>>, done |-> TRUE]
               ELSE IF \A i \in 1..Len(mid) : mid[i] \in ContentChars
                 THEN [ok |-> TRUE, hasMessage |-> TRUE, content |-> mid, done |-> FALSE]
               ELSE [ok |-> FALSE, hasMessage |-> FALSE, content |-> <<>>, done |-> FALSE]
       ELSE [ok |-> FALSE, hasMessage |-> FALSE, content |-> <<>>, done |-> FALSE]

\* ------------------------------------------------------------ JavaScript values
\* a value is its type tag and, for a string, its characters; a number is
\* kept as its decimal literal, a boolean as "true" or "false"; an object
\* carries its fields
Undefined == [t |-> "undefined", v |-> <<>>]
Null == [t |-> "null", v |-> <<>>]
Str(s) == [t |-> "string", v |-> s]
Num(lit) == [t |-> "number", v |-> <<lit>>]
Bool(b) == [t |-> "boolean", v |-> <<IF b THEN "true" ELSE "false">>]
Object(o) == [t |-> "object", v |-> <<o>>]

\* ToBoolean(x)
truthy(x) ==
  /\ x.t \notin {"undefined", "null"}
  /\ x # Str(<<>>)
  /\ x # Num("0")
  /\ x # Bool(FALSE)

\* x || d
orElse(x, d) == IF truthy(x) THEN x ELSE d

\* mutant: ?? written as ||
coalesceAsOr(x, d) == orElse(x, d)

\* x ?? d
coalesce(x, d) == IF x.t \in {"undefined", "null"} THEN d ELSE x

\* ------------------------------------------------------------ errors
None == [type |-> "none", message |-> <<>>]
ConnectionMessage == <<"Failed to connect to Ollama. Please ensure Ollama is running.">>
TypeError(m) == [type |-> "TypeError", message |-> m]
Error(m) == [type |-> "Error", message |-> m]
SyntaxError(m) == [type |-> "SyntaxError", message |-> m]

\* mutant: every error is reported as the connection error
listModelsCatchAll(error) == Error(ConnectionMessage)

\* catch (error) { if (error instanceof TypeError) throw new Error(...); throw error; }
listModelsCatch(error) ==
  IF error.type = "TypeError" THEN Error(ConnectionMessage) ELSE error

streamCatch(error) ==
  IF error.type = "TypeError" THEN Error(ConnectionMessage) ELSE error

\* ------------------------------------------------------------ the caller's callback
VARIABLE
  throwsOn    \* the fragments on which the caller's onChunk throws

\* what the caller's callback throws
CallbackError == Error(<<"onChunk failed">>)

\* onChunk(chunk): what the call throws (None when it returns)
onChunk(chunk) == IF chunk \in throwsOn THEN CallbackError ELSE None

\* the call of onChunk for the increment's text, if there is one
onChunkEach(chunks) == IF chunks = <<>> THEN None ELSE onChunk(chunks[1])

\* catch (parseError) { console.debug(...) }: whatever the try block threw,
\* nothing is thrown on
catchParseError(thrown) == None

\* ------------------------------------------------------------ the decode loop
\* mutant: no try/catch around JSON.parse, the SyntaxError leaves the loop
tryLineRethrows(line) ==
  LET data == JSON_parse(line)
  IN IF ~data.ok THEN [calls |-> <<>>, thrown |-> SyntaxError(<<"Unexpected end of JSON input">>)]
     ELSE IF data.hasMessage /\ data.content # <<>>
       THEN [calls |-> <<data.content>>, thrown |-> onChunk(data.content)]
     ELSE [calls |-> <<>>, thrown |-> None]

\* mutant: onChunk is called for every frame that parses
tryLineEveryFrame(line) ==
  LET data == JSON_parse(line)
  IN IF ~data.ok THEN [calls |-> <<>>, thrown |-> None]
     ELSE [calls |-> <<data.content>>, thrown |-> None]

\* The body of the for loop: try { JSON.parse; if (data.message?.content)
\* onChunk(...) } catch (parseError) { console.debug(...) }
tryLine(line) ==
  LET data == JSON_parse(line)
  IN IF ~data.ok
       THEN [calls |-> <<>>,
             thrown |-> catchParseError(SyntaxError(<<"Unexpected end of JSON input">>))]
     ELSE IF data.hasMessage /\ data.content # <<>>
       THEN [calls |-> <<data.content>>,
             thrown |-> catchParseError(onChunk(data.content))]
     ELSE [calls |-> <<>>, thrown |-> None]

\* for (const line of lines) { ... }: the onChunk calls made, and the
\* exception that left the loop, if any
RECURSIVE forEachLine(_)
forEachLine(lines) ==
  IF lines = <<>> THEN [calls |-> <<>>, thrown |-> None]
  ELSE LET r == tryLine(Head(lines))
       IN IF r.thrown # None THEN r
          ELSE LET rest == forEachLine(Tail(lines))
               IN [calls |-> r.calls \o rest.calls, thrown |-> rest.thrown]

\* mutant: the loop also ends on the frame that says done
readIsDoneOnDoneFrame(rr) == rr.done \/ \E i \in 1..Len(rr.value) : rr.value[i] = "d"

\* if (done) break;
readIsDone(rr) == rr.done

\* for await (const chunk of stream): the loop ends when the iterator does
iterIsDone(it) == it.done

\* mutant: the delta's content is forwarded without the if (content) test
deltaCallsUnfiltered(inc) ==
  IF inc.choices = 0 THEN <<>>
  ELSE IF ~inc.hasDelta THEN <<>>
  ELSE <<inc.content>>

\* const content = chunk.choices[0]?.delta?.content; if (content) onChunk(content)
deltaCalls(inc) ==
  IF inc.choices = 0 THEN <<>>
  ELSE IF ~inc.hasDelta THEN <<>>
  ELSE IF inc.content = <<>> THEN <<>>
  ELSE <<inc.content>>

\* mutant: the exception is reported and the loop goes on
pcAfterThrowContinues == "read"

\* where control goes when an exception leaves the loop: out of the function
pcAfterThrow == "done"

\* mutant: releaseLock() after the loop instead of in a finally block
exitLoopNoFinally(thrown, n) ==
  IF thrown = None THEN [reader |-> "released", releases |-> n + 1]
  ELSE [reader |-> "locked", releases |-> n]

\* try { while ... } finally { reader.releaseLock(); }: the reader after the
\* try block is left, normally (thrown = None) or by an exception
exitLoop(thrown, n) == [reader |-> "released", releases |-> n + 1]

\* mutant: the body is not checked
responseCheckNoBody(resp) ==
  IF ~resp.ok THEN Error(<<"Ollama API error: ", resp.statusText>>) ELSE None

\* if (!response.ok) throw ...; if (!response.body) throw ...;
responseCheck(resp) ==
  IF ~resp.ok THEN Error(<<"Ollama API error: ", resp.statusText>>)
  ELSE IF ~resp.hasBody THEN Error(<<"Response body is null">>)
  ELSE None

\* ------------------------------------------------------------ provider instances
\* new OllamaProvider(config): this.baseUrl = ...; this.model = ...
OllamaProvider(cfg) ==
  [class |-> "OllamaProvider", baseUrl |-> cfg.baseUrl, model |-> cfg.model]

\* new OpenAIProvider(config): this.client = new OpenAI({apiKey, baseURL});
\* this.model = ...
OpenAIProvider(cfg) ==
  [class |-> "OpenAIProvider",
   client |-> [apiKey |-> cfg.apiKey, baseURL |-> cfg.baseUrl],
   model |-> cfg.model]

\* getProviderName(): string
getProviderName(inst) == IF inst.class = "OllamaProvider" THEN "Ollama" ELSE "OpenAI"

\* mutant: getModel() answers a fixed name
getModelFixed(inst) == "llama3"

\* getModel(): string { return this.model; }
getModel(inst) == inst.model

\* ------------------------------------------------------------ requests
DefaultTemperature == Num("0.7")

\* mutant: the messages are passed as they are
ollamaMessagesAsIs(messages) == messages

\* options.messages.map(msg => ({ role: msg.role, content: msg.content }))
ollamaMessages(messages) ==
  [i \in 1..Len(messages) |-> [role |-> messages[i].role, content |-> messages[i].content]]

\* the POST of generateChatCompletion to /api/chat
ollamaGenerateRequest(inst, options) ==
  [url |-> <<inst.baseUrl, "/api/chat">>, method |-> "POST",
   body |-> [model |-> inst.model,
             messages |-> ollamaMessages(options.messages),
             stream |-> FALSE,
             options |-> [temperature |-> coalesce(options.temperature, DefaultTemperature)]]]

\* the POST of streamChatCompletion to /api/chat
ollamaStreamRequest(inst, options) ==
  [url |-> <<inst.baseUrl, "/api/chat">>, method |-> "POST",
   body |-> [model |-> inst.model,
             messages |-> ollamaMessages(options.messages),
             stream |-> TRUE,
             options |-> [temperature |-> coalesce(options.temperature, DefaultTemperature)]]]

\* the GET of listModels
listModelsRequest(inst) == [url |-> <<inst.baseUrl, "/api/tags">>, method |-> "GET"]

\* the argument of client.chat.completions.create in generateChatCompletion
openaiGenerateParams(inst, options) ==
  [client |-> inst.client,
   body |-> [model |-> inst.model,
             messages |-> options.messages,
             temperature |-> coalesce(options.temperature, DefaultTemperature),
             max_tokens |-> options.maxTokens,
             stream |-> FALSE]]

\* ... in streamChatCompletion
openaiStreamParams(inst, options) ==
  [client |-> inst.client,
   body |-> [model |-> inst.model,
             messages |-> options.messages,
             temperature |-> coalesce(options.temperature, DefaultTemperature),
             max_tokens |-> options.maxTokens,
             stream |-> TRUE]]

\* nothing was sent yet
NoRequest == [url |-> <<>>, method |-> "none"]

\* ------------------------------------------------------------ completions
\* mutant: the status is not checked
generateResponseCheckNone(resp) == None

\* if (!response.ok) throw new Error(`Ollama API error: ${response.statusText}`)
generateResponseCheck(resp) ==
  IF ~resp.ok THEN Error(<<"Ollama API error: ", resp.statusText>>) ELSE None

generateCatch(error) ==
  IF error.type = "TypeError" THEN Error(ConnectionMessage) ELSE error

\* data.message?.content
ollamaMessageContent(data) == IF data.hasMessage THEN data.content ELSE Undefined

\* mutant: the text field is returned as it is
ollamaContentRaw(data) == ollamaMessageContent(data)

\* content: data.message?.content || ''
ollamaContent(data) == orElse(ollamaMessageContent(data), Str(<<>>))

\* mutant: every result says 'stop'
ollamaFinishReasonAlways(data) == Str(<<"stop">>)

\* finishReason: data.done ? 'stop' : undefined
ollamaFinishReason(data) == IF truthy(data.done) THEN Str(<<"stop">>) ELSE Undefined

\* no completion was returned
NoCompletion == [content |-> Undefined, finishReason |-> Undefined]

\* const data = await response.json(); return { content, finishReason }:
\* what the statements throw (None when they return), and the value
ollamaCompletion(data) ==
  IF ~data.parses
    THEN [thrown |-> SyntaxError(<<"Unexpected token in JSON">>), value |-> NoCompletion]
  ELSE [thrown |-> None,
        value |-> [content |-> ollamaContent(data),
                   finishReason |-> ollamaFinishReason(data)]]

\* choice.message?.content
choiceContent(choice) == IF choice.hasMessage THEN choice.content ELSE Undefined

\* mutant: a response without choices gives the empty result
openaiCompletionDegraded(response) ==
  IF Len(response.choices) = 0
    THEN [thrown |-> None,
          value |-> [content |-> Str(<<>>), finishReason |-> Undefined]]
  ELSE LET choice == response.choices[1]
       IN [thrown |-> None,
           value |-> [content |-> orElse(choiceContent(choice), Str(<<>>)),
                      finishReason |-> choice.finish_reason]]

\* const choice = response.choices[0]; if (!choice) throw ...;
\* return { content: choice.message?.content || '', finishReason: choice.finish_reason }
openaiCompletion(response) ==
  IF Len(response.choices) = 0
    THEN [thrown |-> Error(<<"No choices returned from OpenAI API">>),
          value |-> NoCompletion]
  ELSE LET choice == response.choices[1]
       IN [thrown |-> None,
           value |-> [content |-> orElse(choiceContent(choice), Str(<<>>)),
                      finishReason |-> choice.finish_reason]]

\* ------------------------------------------------------------ server scripts
StatusTexts == {"Not Found", "Internal Server Error"}
ModelNames == {"llama3", "codellama"}

LineKinds ==
  { <<"{", "a", "}">>, <<"{", "xC3", "xA9", "}">>,
    <<"{", "}">>, <<"{", "d", "}">>, <<"{", "a">>, <<SP>> }

LineSeqs == UNION { [1..n -> LineKinds] : n \in 0..MaxLines }

\* the body: each line followed by a newline, as Ollama writes them
RECURSIVE Wire(_)
Wire(ls) == IF ls = <<>> THEN <<>> ELSE Head(ls) \o <<NL>> \o Wire(Tail(ls))

Wires == { Wire(ls) : ls \in LineSeqs }

\* a ChatCompletionChunk: choices is the number of choices; delta and
\* content describe choices[0] (content <<>> is '' or null)
NoChoice == [choices |-> 0, hasDelta |-> FALSE, content |-> <<>>]
NoDelta == [choices |-> 1, hasDelta |-> FALSE, content |-> <<>>]
Delta(c) == [choices |-> 1, hasDelta |-> TRUE, content |-> c]
Increments == {NoChoice, NoDelta, Delta(<<>>), Delta(<<"a">>), Delta(<<"b">>)}
IncSeqs == UNION { [1..n -> Increments] : n \in 0..MaxIncs }

\* an entry of the models array of the /api/tags response
TagEntries == { [name |-> x] : x \in ModelNames }
ModelLists == UNION { [1..n -> TagEntries] : n \in 0..MaxModels }
\* the body of the /api/tags response: unparsable, an object without
\* models, or an object with the models list
TagsBodies ==
  { [parses |-> FALSE, hasModels |-> FALSE, models |-> <<>>],
    [parses |-> TRUE, hasModels |-> FALSE, models |-> <<>>] }
  \cup { [parses |-> TRUE, hasModels |-> TRUE, models |-> ms] : ms \in ModelLists }

NoBody == [parses |-> FALSE, hasModels |-> FALSE, models |-> <<>>]

\* the body of the /api/chat response with stream: false: unparsable, or
\* an object whose message, message.content and done may be missing
ReplyContents == {Undefined, Null, Str(<<>>), Str(<<"a">>), Str(<<"a", "b">>)}
DoneValues == {Undefined, Bool(TRUE), Bool(FALSE)}
ChatBodies ==
  { [parses |-> FALSE, hasMessage |-> FALSE, content |-> Undefined, done |-> Undefined] }
  \cup { [parses |-> TRUE, hasMessage |-> FALSE, content |-> Undefined, done |-> d] :
           d \in DoneValues }
  \cup { [parses |-> TRUE, hasMessage |-> TRUE, content |-> c, done |-> d] :
           c \in ReplyContents, d \in DoneValues }

\* a choice of a ChatCompletion, and the ChatCompletion the SDK resolves with
Choices ==
  { [hasMessage |-> FALSE, content |-> Undefined, finish_reason |-> f] :
      f \in {Str(<<"stop">>), Str(<<"length">>)} }
  \cup { [hasMessage |-> TRUE, content |-> c, finish_reason |-> f] :
           c \in {Null, Str(<<>>), Str(<<"a">>)},
           f \in {Str(<<"stop">>), Str(<<"length">>)} }
ChatCompletions ==
  { [choices |-> cs] : cs \in UNION { [1..n -> Choices] : n \in 0..MaxChoices } }

Script(ok, st, hasBody, wire, incs, data) ==
  [ok |-> ok, statusText |-> st, hasBody |-> hasBody, wire |-> wire,
   incs |-> incs, data |-> data]

Scripts(o) ==
  IF o = "ollamaStream"
    THEN { Script(TRUE, "OK", TRUE, w, <<>>, NoBody) : w \in Wires }
         \cup { Script(FALSE, st, TRUE, <<>>, <<>>, NoBody) : st \in StatusTexts }
         \cup { Script(TRUE, "OK", FALSE, <<>>, <<>>, NoBody) }
  ELSE IF o = "openaiStream"
    THEN { Script(TRUE, "OK", TRUE, <<>>, is, NoBody) : is \in IncSeqs }
  ELSE IF o = "ollamaGenerate"
    THEN { Script(TRUE, "OK", TRUE, <<>>, <<>>, d) : d \in ChatBodies }
         \cup { Script(FALSE, st, TRUE, <<>>, <<>>, NoBody) : st \in StatusTexts }
  ELSE IF o = "openaiGenerate"
    THEN { Script(TRUE, "OK", TRUE, <<>>, <<>>, d) : d \in ChatCompletions }
  ELSE { Script(TRUE, "OK", TRUE, <<>>, <<>>, d) : d \in TagsBodies }
       \cup { Script(FALSE, st, TRUE, <<>>, <<>>, NoBody) : st \in StatusTexts }

Ops == {"ollamaStream", "openaiStream", "listModels", "ollamaGenerate", "openaiGenerate"}
Generates == {"ollamaGenerate", "openaiGenerate"}
Streams == {"ollamaStream", "openaiStream"}

\* the class that implements an operation
ClassOf(o) ==
  IF o \in {"openaiStream", "openaiGenerate"} THEN "OpenAIProvider" ELSE "OllamaProvider"

\* the configuration the extension builds a provider from
Config(class, model) ==
  IF class = "OpenAIProvider"
    THEN [apiKey |-> "sk-test", baseUrl |-> "https://api.openai.com/v1", model |-> model]
  ELSE [apiKey |-> "none", baseUrl |-> "http://localhost:11434", model |-> model]

construct(class, cfg) ==
  IF class = "OpenAIProvider" THEN OpenAIProvider(cfg) ELSE OllamaProvider(cfg)

\* a ChatMessage and the ChatCompletionOptions of a call
Message(role, content) == [role |-> role, content |-> content]
Options(messages, temperature, maxTokens) ==
  [messages |-> messages, temperature |-> temperature, maxTokens |-> maxTokens]
DefaultOptions == Options(<<Message("user", <<"a">>)>>, Undefined, Undefined)

\* what the operation sends to the backend
requestOf(o, inst, options) ==
  IF o = "ollamaStream" THEN ollamaStreamRequest(inst, options)
  ELSE IF o = "ollamaGenerate" THEN ollamaGenerateRequest(inst, options)
  ELSE IF o = "openaiStream" THEN openaiStreamParams(inst, options)
  ELSE IF o = "openaiGenerate" THEN openaiGenerateParams(inst, options)
  ELSE listModelsRequest(inst)

\* ------------------------------------------------------------ state
VARIABLES
  op,         \* the operation this behaviour runs
  server,     \* what the endpoint answers (fixed for the call)
  pc,         \* position in the async function
  pos,        \* body bytes read (Ollama) / increments consumed (OpenAI)
  pending,    \* the TextDecoder's incomplete multi-byte sequence
  decoded,    \* history: the texts decoder.decode returned, concatenated
  reader,     \* "none", "locked" or "released"
  releases,   \* calls of reader.releaseLock()
  delivered,  \* the arguments of the onChunk calls, in call order
  outcome,    \* the returned promise: "pending", "fulfilled", "rejected"
  error,      \* the rejection reason
  result,     \* the fulfilment value of listModels
  netFailure, \* history: "none", "unreachable" (fetch failed), "bodyLost"
  eos,        \* history: the transport signalled end-of-stream
  splitLines, \* history: the lines of the body a chunk boundary fell inside
  readCalled, \* history: the body was read (reader.read(), response.json())
  config,     \* history: the configuration the provider was constructed from
  instance,   \* the provider object: its fields
  request,    \* the ChatCompletionOptions of the call
  sent,       \* what the call sent to the backend
  completion, \* the fulfilment value of generateChatCompletion
  log,        \* history: the calls finished before this one
  calls,      \* two streaming calls in progress at once: the state of each
  decoders    \* ... and the incomplete sequence of each TextDecoder

\* the extension host and the chat webview (src/CHANGELOG.md, extension.ts)
VARIABLES
  chatViewProvider, \* the ChatViewProvider: _view, _provider, _conversationHistory
  webview,          \* the webview script: its elements and its variables
  toExtension,      \* vscode.postMessage: messages on their way to the extension
  toWebview,        \* webview.postMessage: messages on their way to the webview
  handlers,         \* the calls of _handleUserMessage that reached the stream
  turns,            \* history: the messages and clears the extension handled
  window,           \* vscode.window: the notifications shown
  settings,         \* the llmPair section of the workspace configuration
  inits             \* the runs of initializeLLMProvider

\* the variables of the extension host and the webview
host == <<chatViewProvider, webview, toExtension, toWebview, handlers, turns, window,
          settings, inits>>

vars == <<op, server, pc, pos, pending, decoded, reader, releases, delivered, outcome,
          error, result, netFailure, eos, splitLines, readCalled,
          config, instance, request, sent, completion, log, calls, decoders,
          throwsOn, host>>

\* what no action of a single call assigns
ctx == <<config, instance, request, log, calls, decoders, throwsOn, host>>

\* ------------------------------------------------------------ the extension host
\* new ChatViewProvider(...): no view yet, no provider, an empty history
ChatViewProvider == [view |-> FALSE, provider |-> Undefined, history |-> <<>>]

\* the webview script when it has run: no element, no current assistant
\* message, the Send button enabled; sends and clears count the user's
\* gestures (history)
Webview ==
  [messagesDiv |-> <<>>, currentAssistantMessage |-> 0, sendDisabled |-> FALSE,
   sends |-> 0, clears |-> 0]

\* the keys of the llmPair section that initializeLLMProvider reads
SettingKeys ==
  {"provider", "openai.apiKey", "openai.model", "openai.baseUrl",
   "ollama.baseUrl", "ollama.model"}

\* no key is set: every config.get answers its default
DefaultSettings == [k \in SettingKeys |-> Undefined]

\* no chat view in use
NoHost ==
  /\ chatViewProvider = ChatViewProvider
  /\ webview = Webview
  /\ toExtension = <<>>
  /\ toWebview = <<>>
  /\ handlers = <<>>
  /\ turns = <<>>
  /\ window = <<>>
  /\ settings = DefaultSettings
  /\ inits = <<>>

Init ==
  /\ op \in Ops
  /\ server \in Scripts(op)
  /\ pc = "fetch"
  /\ pos = 0
  /\ pending = <<>>
  /\ decoded = <<>>
  /\ reader = "none"
  /\ releases = 0
  /\ delivered = <<>>
  /\ outcome = "pending"
  /\ error = None
  /\ result = <<>>
  /\ netFailure = "none"
  /\ eos = FALSE
  /\ splitLines = {}
  /\ readCalled = FALSE
  /\ config = Config(ClassOf(op), "llama3")
  /\ instance = construct(ClassOf(op), config)
  /\ request = DefaultOptions
  /\ sent = NoRequest
  /\ completion = NoCompletion
  /\ log = <<>>
  /\ calls = <<>>
  /\ decoders = <<>>
  /\ throwsOn = {}
  /\ NoHost

\* the promise settles: fulfilled when nothing was thrown
Settle(thrown) ==
  /\ outcome' = IF thrown = None THEN "fulfilled" ELSE "rejected"
  /\ error' = thrown

\* ------------------------------------------------------------ OllamaProvider.streamChatCompletion
\* the index (1-based) of the line of the body that byte i belongs to
LineOf(wire, i) == 1 + Cardinality({ j \in 1..(i - 1) : wire[j] = NL })

\* a chunk boundary after byte c falls inside a line when the bytes on both
\* sides of it belong to that line
CutInside(wire, c) ==
  IF c >= 1 /\ c < Len(wire) /\ wire[c] # NL /\ wire[c + 1] # NL
    THEN {LineOf(wire, c)} ELSE {}

\* what reader.read() can resolve to: the next bytes of the body in a chunk
\* of any size, or done once the body is exhausted
ReadResults ==
  IF pos = Len(server.wire) THEN { [done |-> TRUE, value |-> <<>>] }
  ELSE { [done |-> FALSE, value |-> SubSeq(server.wire, pos + 1, pos + k)] :
           k \in 1..(Len(server.wire) - pos) }

\* what reader.read() can reject with when the connection fails
ReadErrors == { TypeError(<<"terminated">>), Error(<<"socket hang up">>) }

\* await fetch(...) rejects: the endpoint cannot be reached
OllamaStreamFetchFails ==
  /\ op = "ollamaStream" /\ pc = "fetch"
  /\ pc' = "done"
  /\ netFailure' = "unreachable"
  /\ Settle(streamCatch(TypeError(<<"fetch failed">>)))
  /\ UNCHANGED <<op, server, pos, pending, reader, releases, delivered, result,
                 eos, splitLines, readCalled>>
  /\ sent' = requestOf(op, instance, request)
  /\ UNCHANGED <<ctx, completion>>
  /\ UNCHANGED decoded

\* await fetch(...) resolves; the status and body checks; getReader()
OllamaStreamFetchResponds ==
  /\ op = "ollamaStream" /\ pc = "fetch"
  /\ LET thrown == responseCheck(server)
     IN IF thrown # None
          THEN /\ pc' = "done"
               /\ Settle(streamCatch(thrown))
               /\ UNCHANGED reader
        ELSE /\ pc' = "read"
             /\ reader' = "locked"
             /\ UNCHANGED <<outcome, error>>
  /\ UNCHANGED <<op, server, pos, pending, releases, delivered, result,
                 netFailure, eos, splitLines, readCalled>>
  /\ sent' = requestOf(op, instance, request)
  /\ UNCHANGED <<ctx, completion>>
  /\ UNCHANGED decoded

\* one turn of while (true): await reader.read() resolves
OllamaStreamRead ==
  /\ op = "ollamaStream" /\ pc = "read"
  /\ \E rr \in ReadResults :
       /\ readCalled' = TRUE
       /\ eos' = (eos \/ rr.done)
       /\ IF readIsDone(rr)
            THEN \* break; finally { reader.releaseLock() }
                 /\ pc' = "done"
                 /\ reader' = exitLoop(None, releases).reader
                 /\ releases' = exitLoop(None, releases).releases
                 /\ Settle(None)
                 /\ UNCHANGED <<pos, pending, decoded, delivered, splitLines>>
          ELSE LET d == decoder_decode(pending, rr.value)
                   r == forEachLine(chunkLines(d.text))
               IN /\ pos' = pos + Len(rr.value)
                  /\ splitLines' = splitLines \cup CutInside(server.wire, pos')
                  /\ pending' = d.pending
                  /\ decoded' = decoded \o d.text
                  /\ delivered' = delivered \o r.calls
                  /\ IF r.thrown = None
                       THEN UNCHANGED <<pc, reader, releases, outcome, error>>
                     ELSE /\ pc' = pcAfterThrow
                          /\ reader' = exitLoop(r.thrown, releases).reader
                          /\ releases' = exitLoop(r.thrown, releases).releases
                          /\ Settle(streamCatch(r.thrown))
  /\ UNCHANGED <<op, server, result, netFailure>>
  /\ UNCHANGED <<ctx, sent, completion>>

\* await reader.read() rejects: finally { releaseLock() }, then the outer catch
OllamaStreamReadThrows ==
  /\ op = "ollamaStream" /\ pc = "read"
  /\ \E e \in ReadErrors :
       /\ readCalled' = TRUE
       /\ netFailure' = "bodyLost"
       /\ pc' = pcAfterThrow
       /\ reader' = exitLoop(e, releases).reader
       /\ releases' = exitLoop(e, releases).releases
       /\ Settle(streamCatch(e))
  /\ UNCHANGED <<op, server, pos, pending, delivered, result, eos, splitLines>>
  /\ UNCHANGED <<ctx, sent, completion>>
  /\ UNCHANGED decoded

\* ------------------------------------------------------------ OpenAIProvider.streamChatCompletion
\* what the SDK can reject with (an APIError, an APIConnectionError)
SdkErrors == { Error(<<"401 Incorrect API key provided">>), Error(<<"Connection error.">>) }

\* what the stream's async iterator yields next
IterResults ==
  IF pos = Len(server.incs) THEN { [done |-> TRUE, value |-> NoChoice] }
  ELSE { [done |-> FALSE, value |-> server.incs[pos + 1]] }

\* await this.client.chat.completions.create({..., stream: true}) rejects
OpenAIStreamCreateFails ==
  /\ op = "openaiStream" /\ pc = "fetch"
  /\ \E e \in SdkErrors :
       /\ pc' = "done"
       /\ netFailure' = "unreachable"
       /\ Settle(e)
  /\ UNCHANGED <<op, server, pos, pending, reader, releases, delivered, result,
                 eos, splitLines, readCalled>>
  /\ sent' = requestOf(op, instance, request)
  /\ UNCHANGED <<ctx, completion>>
  /\ UNCHANGED decoded

\* ... resolves with the stream
OpenAIStreamCreateResolves ==
  /\ op = "openaiStream" /\ pc = "fetch"
  /\ pc' = "read"
  /\ UNCHANGED <<op, server, pos, pending, reader, releases, delivered, outcome,
                 error, result, netFailure, eos, splitLines, readCalled>>
  /\ sent' = requestOf(op, instance, request)
  /\ UNCHANGED <<ctx, completion>>
  /\ UNCHANGED decoded

\* one turn of for await (const chunk of stream)
OpenAIStreamNext ==
  /\ op = "openaiStream" /\ pc = "read"
  /\ \E it \in IterResults :
       /\ eos' = (eos \/ it.done)
       /\ IF iterIsDone(it)
            THEN /\ pc' = "done"
                 /\ Settle(None)
                 /\ UNCHANGED <<pos, delivered>>
          ELSE LET thrown == onChunkEach(deltaCalls(it.value))
               IN /\ pos' = pos + 1
                  /\ delivered' = delivered \o deltaCalls(it.value)
                  /\ IF thrown = None
                       THEN UNCHANGED <<pc, outcome, error>>
                     ELSE /\ pc' = pcAfterThrow
                          /\ Settle(thrown)
  /\ UNCHANGED <<op, server, pending, reader, releases, result, netFailure,
                 splitLines, readCalled>>
  /\ UNCHANGED <<ctx, sent, completion>>
  /\ UNCHANGED decoded

\* the iterator throws in the middle of the stream
OpenAIStreamNextThrows ==
  /\ op = "openaiStream" /\ pc = "read"
  /\ \E e \in SdkErrors :
       /\ netFailure' = "bodyLost"
       /\ pc' = pcAfterThrow
       /\ Settle(e)
  /\ UNCHANGED <<op, server, pos, pending, reader, releases, delivered, result,
                 eos, splitLines, readCalled>>
  /\ UNCHANGED <<ctx, sent, completion>>
  /\ UNCHANGED decoded

\* ------------------------------------------------------------ OllamaProvider.listModels
\* data.models.map(m => m.name)
mapNames(models) == [i \in 1..Len(models) |-> models[i].name]

\* const data = await response.json(); return data.models.map(m => m.name);
\* what the two statements throw (None when they return), and the value
readModels(data) ==
  IF ~data.parses
    THEN [thrown |-> SyntaxError(<<"Unexpected token in JSON">>), value |-> <<>>]
  ELSE IF ~data.hasModels
    THEN [thrown |-> TypeError(<<"Cannot read properties of undefined (reading 'map')">>),
          value |-> <<>>]
  ELSE [thrown |-> None, value |-> mapNames(data.models)]

\* await fetch(`${this.baseUrl}/api/tags`) rejects: connection refused
ListModelsFetchFails ==
  /\ op = "listModels" /\ pc = "fetch"
  /\ pc' = "done"
  /\ netFailure' = "unreachable"
  /\ Settle(listModelsCatch(TypeError(<<"fetch failed">>)))
  /\ UNCHANGED <<op, server, pos, pending, reader, releases, delivered, result,
                 eos, splitLines, readCalled>>
  /\ sent' = requestOf(op, instance, request)
  /\ UNCHANGED <<ctx, completion>>
  /\ UNCHANGED decoded

\* await fetch(...) resolves; if (!response.ok) throw new Error(...)
ListModelsFetchResponds ==
  /\ op = "listModels" /\ pc = "fetch"
  /\ IF ~server.ok
       THEN /\ pc' = "done"
            /\ Settle(listModelsCatch(Error(<<"Failed to fetch models: ", server.statusText>>)))
     ELSE /\ pc' = "json"
          /\ UNCHANGED <<outcome, error>>
  /\ UNCHANGED <<op, server, pos, pending, reader, releases, delivered, result,
                 netFailure, eos, splitLines, readCalled>>
  /\ sent' = requestOf(op, instance, request)
  /\ UNCHANGED <<ctx, completion>>
  /\ UNCHANGED decoded

\* await response.json() settles and the names are mapped
ListModelsJson ==
  /\ op = "listModels" /\ pc = "json"
  /\ LET r == readModels(server.data)
     IN /\ pc' = "done"
        /\ result' = r.value
        /\ Settle(IF r.thrown = None THEN None ELSE listModelsCatch(r.thrown))
  /\ UNCHANGED <<op, server, pos, pending, reader, releases, delivered,
                 netFailure, eos, splitLines, readCalled>>
  /\ UNCHANGED <<ctx, sent, completion>>
  /\ UNCHANGED decoded

\* ------------------------------------------------------------ OllamaProvider.generateChatCompletion
\* await fetch(...) rejects: the endpoint cannot be reached
OllamaGenerateFetchFails ==
  /\ op = "ollamaGenerate" /\ pc = "fetch"
  /\ pc' = "done"
  /\ netFailure' = "unreachable"
  /\ Settle(generateCatch(TypeError(<<"fetch failed">>)))
  /\ sent' = requestOf(op, instance, request)
  /\ UNCHANGED <<op, server, pos, pending, reader, releases, delivered, result,
                 eos, splitLines, readCalled, ctx, completion>>
  /\ UNCHANGED decoded

\* await fetch(...) resolves; the status check
OllamaGenerateFetchResponds ==
  /\ op = "ollamaGenerate" /\ pc = "fetch"
  /\ LET thrown == generateResponseCheck(server)
     IN IF thrown # None
          THEN /\ pc' = "done"
               /\ Settle(generateCatch(thrown))
        ELSE /\ pc' = "json"
             /\ UNCHANGED <<outcome, error>>
  /\ sent' = requestOf(op, instance, request)
  /\ UNCHANGED <<op, server, pos, pending, reader, releases, delivered, result,
                 netFailure, eos, splitLines, readCalled, ctx, completion>>
  /\ UNCHANGED decoded

\* await response.json() settles and the result is built
OllamaGenerateJson ==
  /\ op = "ollamaGenerate" /\ pc = "json"
  /\ LET r == ollamaCompletion(server.data)
     IN /\ pc' = "done"
        /\ readCalled' = TRUE
        /\ completion' = r.value
        /\ Settle(IF r.thrown = None THEN None ELSE generateCatch(r.thrown))
  /\ UNCHANGED <<op, server, pos, pending, reader, releases, delivered, result,
                 netFailure, eos, splitLines, ctx, sent>>
  /\ UNCHANGED decoded

\* await response.json() rejects: the connection was lost while the body
\* was read
OllamaGenerateJsonThrows ==
  /\ op = "ollamaGenerate" /\ pc = "json"
  /\ \E e \in ReadErrors :
       /\ pc' = "done"
       /\ readCalled' = TRUE
       /\ netFailure' = "bodyLost"
       /\ Settle(generateCatch(e))
  /\ UNCHANGED <<op, server, pos, pending, reader, releases, delivered, result,
                 eos, splitLines, ctx, sent, completion>>
  /\ UNCHANGED decoded

\* ------------------------------------------------------------ OpenAIProvider.generateChatCompletion
\* await this.client.chat.completions.create({..., stream: false}) rejects
OpenAIGenerateCreateFails ==
  /\ op = "openaiGenerate" /\ pc = "fetch"
  /\ \E e \in SdkErrors :
       /\ pc' = "done"
       /\ netFailure' = "unreachable"
       /\ Settle(e)
  /\ sent' = requestOf(op, instance, request)
  /\ UNCHANGED <<op, server, pos, pending, reader, releases, delivered, result,
                 eos, splitLines, readCalled, ctx, completion>>
  /\ UNCHANGED decoded

\* ... resolves with the ChatCompletion; the first choice is returned
OpenAIGenerateCreateResolves ==
  /\ op = "openaiGenerate" /\ pc = "fetch"
  /\ LET r == openaiCompletion(server.data)
     IN /\ pc' = "done"
        /\ completion' = r.value
        /\ Settle(r.thrown)
  /\ sent' = requestOf(op, instance, request)
  /\ UNCHANGED <<op, server, pos, pending, reader, releases, delivered, result,
                 netFailure, eos, splitLines, readCalled, ctx>>
  /\ UNCHANGED decoded

\* ------------------------------------------------------------ specification
Next ==
  \/ OllamaStreamFetchFails
  \/ OllamaStreamFetchResponds
  \/ OllamaStreamRead
  \/ OllamaStreamReadThrows
  \/ OpenAIStreamCreateFails
  \/ OpenAIStreamCreateResolves
  \/ OpenAIStreamNext
  \/ OpenAIStreamNextThrows
  \/ ListModelsFetchFails
  \/ ListModelsFetchResponds
  \/ ListModelsJson
  \/ OllamaGenerateFetchFails
  \/ OllamaGenerateFetchResponds
  \/ OllamaGenerateJson
  \/ OllamaGenerateJsonThrows
  \/ OpenAIGenerateCreateFails
  \/ OpenAIGenerateCreateResolves

Spec == Init /\ [][Next]_vars

\* ------------------------------------------------------------ calls with any request
\* the messages a caller may pass: ChatMessages, one of them an object with
\* a further property, which the structural type ChatMessage admits
Messages ==
  { Message("system", <<"a">>), Message("user", <<"b">>),
    [role |-> "assistant", content |-> <<"a", "b">>, timestamp |-> "t1"] }
MessageSeqs == UNION { [1..n -> Messages] : n \in 0..MaxMessages }
Temperatures == {Undefined, Num("0"), Num("0.2"), Num("1")}
MaxTokenValues == {Undefined, Num("256")}
Requests ==
  { Options(ms, t, mt) : ms \in MessageSeqs, t \in Temperatures, mt \in MaxTokenValues }

\* one answer of each kind per operation
FewScripts(o) ==
  IF o = "ollamaStream"
    THEN { Script(TRUE, "OK", TRUE, Wire(<< <<"{", "a", "}">> >>), <<>>, NoBody),
           Script(FALSE, "Not Found", TRUE, <<>>, <<>>, NoBody) }
  ELSE IF o = "openaiStream"
    THEN { Script(TRUE, "OK", TRUE, <<>>, <<Delta(<<"a">>)>>, NoBody) }
  ELSE IF o = "ollamaGenerate"
    THEN { Script(TRUE, "OK", TRUE, <<>>, <<>>,
                  [parses |-> TRUE, hasMessage |-> TRUE, content |-> Str(<<"a">>),
                   done |-> Bool(TRUE)]),
           Script(FALSE, "Not Found", TRUE, <<>>, <<>>, NoBody) }
  ELSE IF o = "openaiGenerate"
    THEN { Script(TRUE, "OK", TRUE, <<>>, <<>>,
                  [choices |-> << [hasMessage |-> TRUE, content |-> Str(<<"a">>),
                                   finish_reason |-> Str(<<"stop">>)] >>]) }
  ELSE { Script(TRUE, "OK", TRUE, <<>>, <<>>,
                [parses |-> TRUE, hasModels |-> TRUE, models |-> <<[name |-> "llama3"]>>]),
         Script(FALSE, "Not Found", TRUE, <<>>, <<>>, NoBody) }

InitRequests ==
  /\ op \in Ops
  /\ server \in FewScripts(op)
  /\ pc = "fetch"
  /\ pos = 0
  /\ pending = <<>>
  /\ decoded = <<>>
  /\ reader = "none"
  /\ releases = 0
  /\ delivered = <<>>
  /\ outcome = "pending"
  /\ error = None
  /\ result = <<>>
  /\ netFailure = "none"
  /\ eos = FALSE
  /\ splitLines = {}
  /\ readCalled = FALSE
  /\ config \in { Config(ClassOf(op), mn) : mn \in ModelNames }
  /\ instance = construct(ClassOf(op), config)
  /\ request \in Requests
  /\ sent = NoRequest
  /\ completion = NoCompletion
  /\ log = <<>>
  /\ calls = <<>>
  /\ decoders = <<>>
  /\ throwsOn = {}
  /\ NoHost

SpecRequests == InitRequests /\ [][Next]_vars

\* ------------------------------------------------------------ calls one after another
\* the answers of the backend in a sequence of calls; the body of the
\* stream breaks off inside a character
SeqScripts(o) ==
  IF o = "ollamaStream"
    THEN { Script(TRUE, "OK", TRUE, <<"{", "a", "}", NL, "xC3">>, <<>>, NoBody) }
  ELSE FewScripts(o)

SeqRequests ==
  { DefaultOptions,
    Options(<<Message("system", <<"a">>), Message("user", <<"b">>)>>, Num("0"), Undefined) }

\* the operations of the class of an instance
OpsOf(inst) == { o \in Ops : ClassOf(o) = inst.class }

\* the call that has just finished: what went in and what came out
finished ==
  [op |-> op, request |-> request, server |-> server, netFailure |-> netFailure,
   pos |-> pos, splitLines |-> splitLines, sent |-> sent, outcome |-> outcome,
   error |-> error, delivered |-> delivered, completion |-> completion,
   result |-> result]

InitSeq ==
  /\ op \in Ops
  /\ server \in SeqScripts(op)
  /\ pc = "fetch"
  /\ pos = 0
  /\ pending = <<>>
  /\ decoded = <<>>
  /\ reader = "none"
  /\ releases = 0
  /\ delivered = <<>>
  /\ outcome = "pending"
  /\ error = None
  /\ result = <<>>
  /\ netFailure = "none"
  /\ eos = FALSE
  /\ splitLines = {}
  /\ readCalled = FALSE
  /\ config \in { Config(ClassOf(op), mn) : mn \in ModelNames }
  /\ instance = construct(ClassOf(op), config)
  /\ request \in SeqRequests
  /\ sent = NoRequest
  /\ completion = NoCompletion
  /\ log = <<>>
  /\ calls = <<>>
  /\ decoders = <<>>
  /\ throwsOn = {}
  /\ NoHost

\* the caller invokes another operation of the same instance after the
\* earlier call has settled; the locals of the new call are new
NextCall ==
  /\ pc = "done" /\ Len(log) + 1 < MaxCalls
  /\ log' = Append(log, finished)
  /\ op' \in OpsOf(instance)
  /\ server' \in SeqScripts(op')
  /\ request' \in SeqRequests
  /\ pc' = "fetch"
  /\ pos' = 0
  /\ pending' = TextDecoder(pending)
  /\ decoded' = <<>>
  /\ reader' = "none"
  /\ releases' = 0
  /\ delivered' = <<>>
  /\ outcome' = "pending"
  /\ error' = None
  /\ result' = <<>>
  /\ netFailure' = "none"
  /\ eos' = FALSE
  /\ splitLines' = {}
  /\ readCalled' = FALSE
  /\ sent' = NoRequest
  /\ completion' = NoCompletion
  /\ UNCHANGED <<config, instance, calls, decoders, throwsOn, host>>

NextSeq == Next \/ NextCall

SpecSeq == InitSeq /\ [][NextSeq]_vars

\* ------------------------------------------------------------ two calls at once
Callers == {1, 2}

\* the answers to the two calls: different texts, each with a two-byte
\* character
PairScripts(o, c) ==
  IF o = "ollamaStream"
    THEN IF c = 1
      THEN { Script(TRUE, "OK", TRUE,
                    Wire(<< <<"{", "a", "}">>, <<"{", "xC3", "xA9", "}">> >>), <<>>, NoBody) }
      ELSE { Script(TRUE, "OK", TRUE,
                    Wire(<< <<"{", "xC3", "xA9", "}">>, <<"{", "b", "}">> >>), <<>>, NoBody),
             Script(FALSE, "Not Found", TRUE, <<>>, <<>>, NoBody) }
  ELSE IF c = 1
    THEN { Script(TRUE, "OK", TRUE, <<>>, <<Delta(<<"a">>), NoChoice, Delta(<<"a">>)>>, NoBody) }
  ELSE { Script(TRUE, "OK", TRUE, <<>>, <<Delta(<<"b">>), Delta(<<>>)>>, NoBody) }

\* a call that has just been made
NewCall(script) ==
  [server |-> script, pc |-> "fetch", pos |-> 0, reader |-> "none", releases |-> 0,
   delivered |-> <<>>, outcome |-> "pending", error |-> None,
   netFailure |-> "none", splitLines |-> {}]

\* mutant: one decoder, a field of the provider, serves every call
decoderOfInstance(c) == 1

\* const decoder = new TextDecoder(): the decoder a call decodes with is its own
decoderOf(c) == c

\* the call's promise settles
settled(call, thrown) ==
  [call EXCEPT !.pc = "done",
               !.outcome = IF thrown = None THEN "fulfilled" ELSE "rejected",
               !.error = thrown]

\* the call leaves the try block of the decode loop
released(call, thrown) ==
  [call EXCEPT !.reader = exitLoop(thrown, call.releases).reader,
               !.releases = exitLoop(thrown, call.releases).releases]

\* what reader.read() of a call can resolve to
PairReadResults(call) ==
  IF call.pos = Len(call.server.wire) THEN { [done |-> TRUE, value |-> <<>>] }
  ELSE { [done |-> FALSE,
          value |-> SubSeq(call.server.wire, call.pos + 1, call.pos + k)] :
           k \in 1..(Len(call.server.wire) - call.pos) }

\* what the stream's iterator of a call yields next
PairIterResults(call) ==
  IF call.pos = Len(call.server.incs) THEN { [done |-> TRUE, value |-> NoChoice] }
  ELSE { [done |-> FALSE, value |-> call.server.incs[call.pos + 1]] }

InitPair ==
  /\ op \in Streams
  /\ server \in FewScripts(op)
  /\ pc = "fetch"
  /\ pos = 0
  /\ pending = <<>>
  /\ decoded = <<>>
  /\ reader = "none"
  /\ releases = 0
  /\ delivered = <<>>
  /\ outcome = "pending"
  /\ error = None
  /\ result = <<>>
  /\ netFailure = "none"
  /\ eos = FALSE
  /\ splitLines = {}
  /\ readCalled = FALSE
  /\ config = Config(ClassOf(op), "llama3")
  /\ instance = construct(ClassOf(op), config)
  /\ request = DefaultOptions
  /\ sent = NoRequest
  /\ completion = NoCompletion
  /\ log = <<>>
  /\ calls \in { [c \in Callers |-> NewCall(f[c])] :
                   f \in [Callers -> UNION { PairScripts(op, c) : c \in Callers }] }
  /\ \A c \in Callers : calls[c].server \in PairScripts(op, c)
  /\ decoders = [c \in Callers |-> TextDecoder(<<>>)]
  /\ throwsOn = {}
  /\ NoHost

\* the variables of the single call, which the two calls do not use
single == <<op, server, pc, pos, pending, decoded, reader, releases, delivered, outcome,
            error, result, netFailure, eos, splitLines, readCalled,
            config, instance, request, sent, completion, log, throwsOn, host>>

\* await fetch(...) of call c rejects
PairOllamaFetchFails(c) ==
  /\ op = "ollamaStream" /\ calls[c].pc = "fetch"
  /\ calls' = [calls EXCEPT ![c] =
       settled([@ EXCEPT !.netFailure = "unreachable"],
               streamCatch(TypeError(<<"fetch failed">>)))]
  /\ UNCHANGED <<single, decoders>>

\* await fetch(...) of call c resolves; the checks; getReader()
PairOllamaFetchResponds(c) ==
  /\ op = "ollamaStream" /\ calls[c].pc = "fetch"
  /\ LET thrown == responseCheck(calls[c].server)
     IN calls' = [calls EXCEPT ![c] =
          IF thrown # None THEN settled(@, streamCatch(thrown))
          ELSE [@ EXCEPT !.pc = "read", !.reader = "locked"]]
  /\ UNCHANGED <<single, decoders>>

\* one turn of the loop of call c
PairOllamaRead(c) ==
  /\ op = "ollamaStream" /\ calls[c].pc = "read"
  /\ \E rr \in PairReadResults(calls[c]) :
       IF readIsDone(rr)
         THEN /\ calls' = [calls EXCEPT ![c] = settled(released(@, None), None)]
              /\ UNCHANGED decoders
       ELSE LET call == calls[c]
                d == decoder_decode(decoders[decoderOf(c)], rr.value)
                r == forEachLine(chunkLines(d.text))
                read == [call EXCEPT
                           !.pos = call.pos + Len(rr.value),
                           !.splitLines = call.splitLines
                              \cup CutInside(call.server.wire, call.pos + Len(rr.value)),
                           !.delivered = call.delivered \o r.calls]
            IN /\ decoders' = [decoders EXCEPT ![decoderOf(c)] = d.pending]
               /\ calls' = [calls EXCEPT ![c] =
                    IF r.thrown = None THEN read
                    ELSE settled(released(read, r.thrown), streamCatch(r.thrown))]
  /\ UNCHANGED single

\* await reader.read() of call c rejects
PairOllamaReadThrows(c) ==
  /\ op = "ollamaStream" /\ calls[c].pc = "read"
  /\ \E e \in ReadErrors :
       calls' = [calls EXCEPT ![c] =
         settled(released([@ EXCEPT !.netFailure = "bodyLost"], e), streamCatch(e))]
  /\ UNCHANGED <<single, decoders>>

\* create({..., stream: true}) of call c rejects
PairOpenAICreateFails(c) ==
  /\ op = "openaiStream" /\ calls[c].pc = "fetch"
  /\ \E e \in SdkErrors :
       calls' = [calls EXCEPT ![c] = settled([@ EXCEPT !.netFailure = "unreachable"], e)]
  /\ UNCHANGED <<single, decoders>>

\* ... resolves with the stream of call c
PairOpenAICreateResolves(c) ==
  /\ op = "openaiStream" /\ calls[c].pc = "fetch"
  /\ calls' = [calls EXCEPT ![c] = [@ EXCEPT !.pc = "read"]]
  /\ UNCHANGED <<single, decoders>>

\* one turn of for await of call c
PairOpenAINext(c) ==
  /\ op = "openaiStream" /\ calls[c].pc = "read"
  /\ \E it \in PairIterResults(calls[c]) :
       calls' = [calls EXCEPT ![c] =
         IF iterIsDone(it) THEN settled(@, None)
         ELSE LET thrown == onChunkEach(deltaCalls(it.value))
                  next == [@ EXCEPT !.pos = @ + 1,
                                    !.delivered = @ \o deltaCalls(it.value)]
              IN IF thrown = None THEN next ELSE settled(next, thrown)]
  /\ UNCHANGED <<single, decoders>>

\* the iterator of call c throws
PairOpenAINextThrows(c) ==
  /\ op = "openaiStream" /\ calls[c].pc = "read"
  /\ \E e \in SdkErrors :
       calls' = [calls EXCEPT ![c] = settled([@ EXCEPT !.netFailure = "bodyLost"], e)]
  /\ UNCHANGED <<single, decoders>>

NextPair ==
  \E c \in Callers :
    \/ PairOllamaFetchFails(c)
    \/ PairOllamaFetchResponds(c)
    \/ PairOllamaRead(c)
    \/ PairOllamaReadThrows(c)
    \/ PairOpenAICreateFails(c)
    \/ PairOpenAICreateResolves(c)
    \/ PairOpenAINext(c)
    \/ PairOpenAINextThrows(c)

SpecPair == InitPair /\ [][NextPair]_vars

\* ------------------------------------------------------------ a callback that throws
\* bodies and increments with the texts a and b
CallbackLines == { <<"{", "a", "}">>, <<"{", "b", "}">> }
CallbackScripts(o) ==
  IF o = "ollamaStream"
    THEN { Script(TRUE, "OK", TRUE, Wire(ls), <<>>, NoBody) :
             ls \in UNION { [1..n -> CallbackLines] : n \in 0..MaxCallbackLines } }
  ELSE { Script(TRUE, "OK", TRUE, <<>>, is, NoBody) :
           is \in UNION { [1..n -> {Delta(<<"a">>), Delta(<<"b">>)}] :
                            n \in 0..MaxCallbackLines } }

InitCallback ==
  /\ op \in Streams
  /\ server \in CallbackScripts(op)
  /\ pc = "fetch"
  /\ pos = 0
  /\ pending = <<>>
  /\ decoded = <<>>
  /\ reader = "none"
  /\ releases = 0
  /\ delivered = <<>>
  /\ outcome = "pending"
  /\ error = None
  /\ result = <<>>
  /\ netFailure = "none"
  /\ eos = FALSE
  /\ splitLines = {}
  /\ readCalled = FALSE
  /\ config = Config(ClassOf(op), "llama3")
  /\ instance = construct(ClassOf(op), config)
  /\ request = DefaultOptions
  /\ sent = NoRequest
  /\ completion = NoCompletion
  /\ log = <<>>
  /\ calls = <<>>
  /\ decoders = <<>>
  /\ throwsOn \in { {}, {<<"a">>}, {<<"b">>} }
  /\ NoHost

NextStreams ==
  \/ OllamaStreamFetchFails
  \/ OllamaStreamFetchResponds
  \/ OllamaStreamRead
  \/ OllamaStreamReadThrows
  \/ OpenAIStreamCreateFails
  \/ OpenAIStreamCreateResolves
  \/ OpenAIStreamNext
  \/ OpenAIStreamNextThrows

SpecCallback == InitCallback /\ [][NextStreams]_vars

\* ------------------------------------------------------------ the chat view
\* the variables of the provider calls, which the chat view leaves alone
callVars == <<op, server, pc, pos, pending, decoded, reader, releases, delivered, outcome,
          error, result, netFailure, eos, splitLines, readCalled,
          config, instance, request, sent, completion, log, calls, decoders,
          throwsOn>>

\* no provider call is modelled: the provider of the chat view is its
\* interface (types.ts), onChunk calls followed by the promise settling
NoCall ==
  /\ op = "listModels"
  /\ server = CHOOSE s \in Scripts("listModels") : TRUE
  /\ pc = "fetch"
  /\ pos = 0
  /\ pending = <<>>
  /\ decoded = <<>>
  /\ reader = "none"
  /\ releases = 0
  /\ delivered = <<>>
  /\ outcome = "pending"
  /\ error = None
  /\ result = <<>>
  /\ netFailure = "none"
  /\ eos = FALSE
  /\ splitLines = {}
  /\ readCalled = FALSE
  /\ config = Config("OllamaProvider", "llama3")
  /\ instance = construct("OllamaProvider", config)
  /\ request = DefaultOptions
  /\ sent = NoRequest
  /\ completion = NoCompletion
  /\ log = <<>>
  /\ calls = <<>>
  /\ decoders = <<>>
  /\ throwsOn = {}

\* what the user types into messageInput
Inputs == {<<SP>>, <<"p">>, <<SP, "q">>}

\* the fragment a provider hands to its k-th call of onChunk
Fragment(k) == <<IF k % 2 = 1 THEN "x" ELSE "y">>

\* what a provider's promise rejects with: an Error, or a value that is none
Rejections == {Error(<<"boom">>), [type |-> "string", message |-> <<"boom">>]}

\* error instanceof Error
instanceofError(e) == e.type \in {"Error", "TypeError", "SyntaxError"}

\* the first message of every request
SystemPrompt ==
  Message("system",
          <<"You are a helpful AI pair programming assistant. Help the user with their coding tasks, provide suggestions, explain code, and assist with debugging.">>)

\* mutant: the request carries the system prompt and the last message only
streamMessagesLast(history) == <<SystemPrompt, history[Len(history)]>>

\* messages: [{role: 'system', ...}, ...this._conversationHistory]
streamMessages(history) == <<SystemPrompt>> \o history

\* a message of the extension to the webview; req is history: the call of
\* _handleUserMessage that posted it
Post(type, text, req) == [type |-> type, text |-> text, req |-> req]

\* what the posts look like without req
shown(posts) == [i \in 1..Len(posts) |-> [type |-> posts[i].type, text |-> posts[i].text]]

\* mutant: the callback posts nothing
chunkPostsNone(chunk, r) == <<>>

\* (chunk) => { ...; this._view?.webview.postMessage({type: 'assistantChunk', chunk}) }
chunkPosts(chunk, r) == <<Post("assistantChunk", chunk, r)>>

\* mutant: whatever the promise did, assistantComplete is posted
terminalPostComplete(thrown, r) == Post("assistantComplete", <<>>, r)

\* after the await: assistantComplete, or in the catch block the error with
\* error instanceof Error ? error.message : 'An error occurred'
terminalPost(thrown, r) ==
  IF thrown = None THEN Post("assistantComplete", <<>>, r)
  ELSE Post("error",
            IF instanceofError(thrown) THEN thrown.message ELSE <<"An error occurred">>,
            r)

\* resolveWebviewView(webviewView, ...): the view is kept, its HTML set and
\* the message listener registered
ResolveWebviewView ==
  /\ ~chatViewProvider.view
  /\ chatViewProvider' = [chatViewProvider EXCEPT !.view = TRUE]
  /\ webview' = Webview
  /\ UNCHANGED <<toExtension, toWebview, handlers, turns, window, settings, inits, callVars>>

\* function sendMessage() of the webview script
sendMessage(text) ==
  LET message == trim(text)
  IN IF message = <<>> THEN UNCHANGED <<webview, toExtension>>
     ELSE /\ toExtension' = Append(toExtension, [type |-> "sendMessage", message |-> message])
          /\ webview' = [webview EXCEPT !.sendDisabled = TRUE, !.sends = @ + 1]

\* the user clicks Send: a disabled button dispatches no click
ClickSend ==
  /\ chatViewProvider.view /\ webview.sends < MaxSends
  /\ ~webview.sendDisabled
  /\ \E text \in Inputs : sendMessage(text)
  /\ UNCHANGED <<chatViewProvider, toWebview, handlers, turns, window, settings, inits, callVars>>

\* the user presses Enter (without Shift) in messageInput
PressEnter ==
  /\ chatViewProvider.view /\ webview.sends < MaxSends
  /\ \E text \in Inputs : sendMessage(text)
  /\ UNCHANGED <<chatViewProvider, toWebview, handlers, turns, window, settings, inits, callVars>>

\* the user clicks Clear; an element that currentAssistantMessage refers to
\* leaves the document (-1) and stays referred to
ClickClear ==
  /\ chatViewProvider.view /\ webview.clears < MaxClears
  /\ webview' = [webview EXCEPT !.messagesDiv = <<>>,
                                !.currentAssistantMessage = IF @ = 0 THEN 0 ELSE -1,
                                !.clears = @ + 1]
  /\ toExtension' = Append(toExtension, [type |-> "clearChat", message |-> <<>>])
  /\ UNCHANGED <<chatViewProvider, toWebview, handlers, turns, window, settings, inits, callVars>>

\* an element of messagesDiv; from is history: the requests whose chunks
\* were added to it
Element(class, text) == [class |-> class, text |-> text, from |-> {}]

\* window.addEventListener('message', ...) of the webview script
onMessage(w, m) ==
  IF m.type = "userMessage"
    THEN [w EXCEPT !.messagesDiv = Append(@, Element("user-message", m.text))]
  ELSE IF m.type = "startAssistantMessage"
    THEN [w EXCEPT !.messagesDiv = Append(@, Element("assistant-message", <<>>)),
                   !.currentAssistantMessage = Len(w.messagesDiv) + 1]
  ELSE IF m.type = "assistantChunk"
    THEN IF w.currentAssistantMessage > 0
           THEN [w EXCEPT !.messagesDiv[w.currentAssistantMessage] =
                            [@ EXCEPT !.text = @ \o m.text, !.from = @ \cup {m.req}]]
         ELSE w
  ELSE IF m.type = "assistantComplete"
    THEN [w EXCEPT !.currentAssistantMessage = 0, !.sendDisabled = FALSE]
  ELSE [w EXCEPT !.messagesDiv = Append(@, Element("error-message", <<"Error: ">> \o m.text)),
                 !.currentAssistantMessage = 0,
                 !.sendDisabled = FALSE]

\* the webview receives the next message of the extension
WebviewReceives ==
  /\ toWebview # <<>>
  /\ webview' = onMessage(webview, Head(toWebview))
  /\ toWebview' = Tail(toWebview)
  /\ UNCHANGED <<chatViewProvider, toExtension, handlers, turns, window, settings, inits, callVars>>

\* _handleUserMessage(message) up to its await
handleUserMessage(message) ==
  IF ~truthy(chatViewProvider.provider)
    THEN /\ window' = Append(window, [kind |-> "showErrorMessage",
                                    text |-> <<"No LLM provider configured">>])
         /\ UNCHANGED <<chatViewProvider, toWebview, handlers, turns>>
  ELSE IF ~chatViewProvider.view
    THEN UNCHANGED <<chatViewProvider, toWebview, handlers, turns, window>>
  ELSE LET r == Len(handlers) + 1
           history == Append(chatViewProvider.history, Message("user", message))
           posts == <<Post("userMessage", message, r), Post("startAssistantMessage", <<>>, r)>>
       IN /\ chatViewProvider' = [chatViewProvider EXCEPT !.history = history]
          /\ toWebview' = toWebview \o posts
          /\ handlers' = Append(handlers,
                                [message |-> message,
                                 messages |-> streamMessages(history),
                                 fullResponse |-> <<>>,
                                 chunks |-> <<>>,
                                 thrown |-> None,
                                 state |-> "streaming",
                                 posts |-> posts,
                                 at |-> Len(turns) + 1,
                                 provider |-> chatViewProvider.provider,
                                 after |-> {i \in 1..Len(inits) : inits[i].pc = "done"}])
          /\ turns' = Append(turns, [kind |-> "user", req |-> r])
          /\ UNCHANGED window

\* webviewView.webview.onDidReceiveMessage(async (data) => { switch ... })
ExtensionReceives ==
  /\ toExtension # <<>>
  /\ toExtension' = Tail(toExtension)
  /\ LET data == Head(toExtension)
     IN IF data.type = "sendMessage" THEN handleUserMessage(data.message)
        ELSE /\ chatViewProvider' = [chatViewProvider EXCEPT !.history = <<>>]
             /\ turns' = Append(turns, [kind |-> "clear", req |-> 0])
             /\ UNCHANGED <<toWebview, handlers, window>>
  /\ UNCHANGED <<webview, settings, inits, callVars>>

\* the provider calls onChunk(chunk) of request r
StreamChunk(r) ==
  /\ handlers[r].state = "streaming" /\ Len(handlers[r].chunks) < MaxChunks
  /\ LET chunk == Fragment(Len(handlers[r].chunks) + 1)
     IN
       /\ handlers' = [handlers EXCEPT ![r].fullResponse = @ \o chunk,
                                       ![r].chunks = Append(@, chunk),
                                       ![r].posts = @ \o chunkPosts(chunk, r)]
       /\ toWebview' = toWebview \o chunkPosts(chunk, r)
  /\ UNCHANGED <<chatViewProvider, webview, toExtension, turns, window, settings, inits, callVars>>

\* mutant: what has arrived is kept as the reply also when the stream fails
historyAfterAlways(fullResponse, thrown) ==
  Append(chatViewProvider.history, Message("assistant", fullResponse))

\* this._conversationHistory.push({role: 'assistant', content: fullResponse})
\* after the await; the catch block leaves the history alone
historyAfter(fullResponse, thrown) ==
  IF thrown = None
    THEN Append(chatViewProvider.history, Message("assistant", fullResponse))
  ELSE chatViewProvider.history

\* the promise of request r settles (thrown = None: it fulfils) and
\* _handleUserMessage runs to its end
settles(r, thrown) ==
  /\ handlers[r].state = "streaming"
  /\ handlers' = [handlers EXCEPT ![r].state = IF thrown = None THEN "fulfilled" ELSE "rejected",
                                  ![r].thrown = thrown,
                                  ![r].posts = Append(@, terminalPost(thrown, r))]
  /\ toWebview' = Append(toWebview, terminalPost(thrown, r))
  /\ chatViewProvider' =
       [chatViewProvider EXCEPT !.history = historyAfter(handlers[r].fullResponse, thrown)]
  /\ turns' = IF thrown = None THEN Append(turns, [kind |-> "assistant", req |-> r])
              ELSE turns
  /\ UNCHANGED <<webview, toExtension, window, settings, inits, callVars>>

StreamFulfils(r) == settles(r, None)

StreamRejects(r) == \E thrown \in Rejections : settles(r, thrown)

\* the extension is activated without a provider, or with one installed
InitChat ==
  /\ NoCall
  /\ chatViewProvider \in
       {ChatViewProvider, [ChatViewProvider EXCEPT
          !.provider = Object(OpenAIProvider(Config("OpenAIProvider", "gpt-4")))]}
  /\ webview = Webview
  /\ toExtension = <<>>
  /\ toWebview = <<>>
  /\ handlers = <<>>
  /\ turns = <<>>
  /\ window = <<>>
  /\ settings = DefaultSettings
  /\ inits = <<>>

NextChat ==
  \/ ResolveWebviewView
  \/ ClickSend
  \/ PressEnter
  \/ ClickClear
  \/ WebviewReceives
  \/ ExtensionReceives
  \/ \E r \in 1..Len(handlers) : StreamChunk(r)
  \/ \E r \in 1..Len(handlers) : StreamFulfils(r)
  \/ \E r \in 1..Len(handlers) : StreamRejects(r)

SpecChat == InitChat /\ [][NextChat]_vars

\* ------------------------------------------------------------ initializeLLMProvider
\* config.get(key, defaultValue)
configGet(s, key, defaultValue) == IF s[key] = Undefined THEN defaultValue ELSE s[key]

\* process.env.VSCODE_LLMPAIR_OPENAI_APIKEY: the development fallback is not set
ProcessEnv == Undefined

\* the configurations the user can write: nothing set, an OpenAI key, the
\* placeholder key, Ollama with its defaults, Ollama with another model, a
\* provider the extension does not know
SettingsChoices ==
  {DefaultSettings,
   [DefaultSettings EXCEPT !["openai.apiKey"] = Str(<<"sk-test">>)],
   [DefaultSettings EXCEPT !["provider"] = Str(<<"openai">>),
                           !["openai.apiKey"] = Str(<<"update your api-key here">>)],
   [DefaultSettings EXCEPT !["provider"] = Str(<<"ollama">>)],
   [DefaultSettings EXCEPT !["provider"] = Str(<<"ollama">>),
                           !["ollama.model"] = Str(<<"llama3">>)],
   [DefaultSettings EXCEPT !["provider"] = Str(<<"azure">>)]}

\* what listModels() of the probe rejects with
ProbeErrors == {Error(ConnectionMessage), Error(<<"Ollama API error: 500">>)}

\* a notification or a line of the output channel
Shown(kind, text) == [kind |-> kind, text |-> text]

\* a run of initializeLLMProvider: the configuration it read (history),
\* where it is, the provider it built, the state of its probe, what it has
\* shown, and its place among the setProvider calls (history; 0: none)
Run(s, at, provider, probe, notes) ==
  [settings |-> s, pc |-> at, provider |-> provider, probe |-> probe,
   shown |-> notes, order |-> 0]

\* initializeLLMProvider(chatViewProvider) up to its await or its end; a
\* run whose pc is "install" ends with setProvider
initializeLLMProvider(s) ==
  LET provider == configGet(s, "provider", Str(<<"openai">>))
  IN IF provider = Str(<<"openai">>)
       THEN LET configured == s["openai.apiKey"]
                apiKey == IF \/ ~truthy(configured)
                             \/ configured = Str(<<"update your api-key here">>)
                             \/ trim(configured.v) = <<>>
                            THEN ProcessEnv ELSE configured
                model == configGet(s, "openai.model", Str(<<"gpt-4">>))
                baseUrl == s["openai.baseUrl"]
            IN IF ~truthy(apiKey)
                 THEN Run(s, "done", Undefined, "none",
                          <<Shown("showWarningMessage",
                                  <<"OpenAI API key not configured. Please set llmPair.openai.apiKey in settings.">>)>>)
               ELSE Run(s, "install",
                        Object(OpenAIProvider([apiKey |-> apiKey, model |-> model,
                                               baseUrl |-> baseUrl])),
                        "none", <<>>)
     ELSE IF provider = Str(<<"ollama">>)
       THEN LET baseUrl == configGet(s, "ollama.baseUrl", Str(<<"http://localhost:11434">>))
                model == configGet(s, "ollama.model", Str(<<"codellama:latest">>))
            IN Run(s, "probing",
                   Object(OllamaProvider([baseUrl |-> baseUrl, model |-> model])),
                   "pending", <<>>)
     ELSE Run(s, "done", Undefined, "none",
              <<Shown("appendLine", <<"Unsupported provider: ">> \o provider.v)>>)

\* setProvider(provider)
setProvider(provider) == [chatViewProvider EXCEPT !.provider = provider]

\* the setProvider calls made so far
installs == Cardinality({i \in 1..Len(inits) : inits[i].order > 0})

\* mutant: a run that built no provider installs what it has, undefined
providerAfterAlways(run) == setProvider(run.provider)

\* chatViewProvider.setProvider(openaiProvider) is reached by the runs that
\* built a provider; the others return or fall through without it
providerAfter(run) ==
  IF run.pc = "install" THEN setProvider(run.provider) ELSE chatViewProvider

\* a run starts: it runs to its await, or to its end
starts(s) ==
  LET run == initializeLLMProvider(s)
  IN /\ inits' = Append(inits, IF run.pc = "install"
                                 THEN [run EXCEPT !.pc = "done", !.order = installs + 1]
                               ELSE run)
     /\ chatViewProvider' = providerAfter(run)
     /\ window' = window \o run.shown

\* activate(context): await initializeLLMProvider(chatViewProvider)
Activate ==
  /\ inits = <<>>
  /\ starts(settings)
  /\ UNCHANGED <<webview, toExtension, toWebview, handlers, turns, settings, callVars>>

\* onDidChangeConfiguration is registered when the awaited first run is over
listening == inits # <<>> /\ inits[1].pc = "done"

\* the user changes the llmPair section; the listener, if registered,
\* starts a run and does not wait for it
ChangeConfiguration ==
  /\ Len(inits) < MaxChanges + 1
  /\ \E s \in SettingsChoices \ {settings} :
       /\ settings' = s
       /\ IF listening THEN starts(s)
          ELSE UNCHANGED <<inits, chatViewProvider, window>>
  /\ UNCHANGED <<webview, toExtension, toWebview, handlers, turns, callVars>>

\* mutant: the provider is installed whatever the probe did
afterProbeAlways(thrown) == TRUE

\* try { await ollamaProvider.listModels(); setProvider(...) } catch: whether
\* setProvider is reached
afterProbe(thrown) == thrown = None

\* catch (error): showErrorMessage and a line of the output channel
probeCatch(thrown, baseUrl) ==
  IF thrown = None THEN <<>>
  ELSE LET message == IF instanceofError(thrown) THEN thrown.message ELSE <<"Unknown error">>
       IN <<Shown("showErrorMessage",
                  <<"Failed to connect to Ollama: ">> \o message
                  \o <<". Please ensure Ollama is running at ">> \o baseUrl.v)>>

\* the probe of run i settles (thrown = None: it fulfils) and the run ends
probeSettles(i, thrown) ==
  /\ inits[i].pc = "probing"
  /\ LET notes == probeCatch(thrown, inits[i].provider.v[1].baseUrl)
     IN /\ inits' = [inits EXCEPT ![i].pc = "done",
                                  ![i].probe = IF thrown = None THEN "fulfilled" ELSE "rejected",
                                  ![i].shown = @ \o notes,
                                  ![i].order = IF afterProbe(thrown) THEN installs + 1 ELSE 0]
        /\ window' = window \o notes
  /\ chatViewProvider' = IF afterProbe(thrown) THEN setProvider(inits[i].provider)
                         ELSE chatViewProvider
  /\ UNCHANGED <<webview, toExtension, toWebview, handlers, turns, settings, callVars>>

ProbeFulfils(i) == probeSettles(i, None)

ProbeRejects(i) == \E thrown \in ProbeErrors : probeSettles(i, thrown)

\* the extension is loaded with some configuration
InitSettings ==
  /\ NoCall
  /\ chatViewProvider = ChatViewProvider
  /\ webview = Webview
  /\ toExtension = <<>>
  /\ toWebview = <<>>
  /\ handlers = <<>>
  /\ turns = <<>>
  /\ window = <<>>
  /\ settings \in SettingsChoices
  /\ inits = <<>>

NextInit ==
  \/ Activate
  \/ ChangeConfiguration
  \/ \E i \in 1..Len(inits) : ProbeFulfils(i)
  \/ \E i \in 1..Len(inits) : ProbeRejects(i)

SpecInit == InitSettings /\ [][NextInit]_vars

\* ------------------------------------------------------------ the host as a whole
\* the runs of initializeLLMProvider together with a chat view in use: the
\* user sends a message at any moment before, between or after the runs
NextServe ==
  \/ NextInit
  \/ ResolveWebviewView
  \/ ClickSend
  \/ ExtensionReceives
  \/ \E r \in 1..Len(handlers) : StreamFulfils(r)

SpecServe == InitSettings /\ [][NextServe]_vars

\* ------------------------------------------------------------ the stream as sent
\* the lines of the body as the server wrote them (bytes)
wireLines == split(server.wire)

\* the text of line j
lineText(j) == Utf8Decode(wireLines[j]).text

\* line j is a valid JSON line that carries text
hasContent(j) ==
  LET d == JSON_parse(lineText(j)) IN d.ok /\ d.hasMessage /\ d.content # <<>>

\* line j is not blank and is not valid JSON
isMalformed(j) == trim(lineText(j)) # <<>> /\ ~JSON_parse(lineText(j)).ok

\* The contents, in order, of the valid lines among ls that carry text;
\* ls are the lines from line j on and start bytes precede them.  With
\* arrivedOnly, only of the lines read completely and in one chunk.
RECURSIVE lineContents(_, _, _, _)
lineContents(ls, j, start, arrivedOnly) ==
  IF ls = <<>> THEN <<>>
  ELSE LET end == start + Len(Head(ls))
           d == JSON_parse(Utf8Decode(Head(ls)).text)
           counts == arrivedOnly => (end <= pos /\ j \notin splitLines)
       IN (IF counts /\ d.ok /\ d.hasMessage /\ d.content # <<>>
             THEN <<d.content>> ELSE <<>>)
          \o lineContents(Tail(ls), j + 1, end + 1, arrivedOnly)

\* the contents of all valid lines of the stream
StreamContents == lineContents(wireLines, 1, 0, FALSE)

\* the contents of the valid lines that have arrived whole
ArrivedContents == lineContents(wireLines, 1, 0, TRUE)

\* ------------------------------------------------------------ claims

\* C1: for every stream of newline-delimited JSON lines and every cut of it
\* into chunks, once streamChatCompletion has fulfilled the concatenation
\* of the strings passed to onChunk equals the concatenation of the contents
\* of all valid lines of the stream: a line split across a chunk boundary is
\* neither lost nor duplicated.  (Violated: the decoder keeps no tail.)
C1_ConcatEqualsStream ==
  (op = "ollamaStream" /\ outcome = "fulfilled")
    => Flatten(delivered) = Flatten(StreamContents)

\* the contents, in order, of the pieces that are valid JSON and carry text
RECURSIVE validContents(_)
validContents(pieces) ==
  IF pieces = <<>> THEN <<>>
  ELSE LET d == JSON_parse(Head(pieces))
       IN (IF d.ok /\ d.hasMessage /\ d.content # <<>> THEN <<d.content>> ELSE <<>>)
          \o validContents(Tail(pieces))

\* inside the loop the call is rejected only by a failed read, never with a
\* SyntaxError, and what was delivered is the content of every valid line
\* of the stream that has arrived whole, whatever failed to parse before it
C2_NoRejectNoStop ==
  (op = "ollamaStream" /\ reader # "none") =>
    /\ error.type # "SyntaxError"
    /\ (outcome = "rejected" => netFailure = "bodyLost")
    /\ delivered = ArrivedContents

\* a turn of the loop that reads a chunk forwards the content of every valid
\* line of that chunk, in order, and leaves the loop running
C2_ChunkStep ==
  (op = "ollamaStream" /\ pc = "read" /\ pos' > pos) =>
    /\ delivered' = delivered \o validContents(
         split(Utf8Decode(pending \o SubSeq(server.wire, pos + 1, pos')).text))
    /\ pc' = "read" /\ outcome' = "pending"

\* C2: a line that fails JSON parsing never rejects the call and never
\* stops the decode loop: every valid line that arrives after it, in the
\* same chunk or in a later chunk, is still parsed and its content forwarded
\* to onChunk.
C2_ParseFailureIsSkipped == [](C2_NoRejectNoStop) /\ [][C2_ChunkStep]_vars

\* the first line was cut by a chunk boundary (both pieces fail to parse),
\* the second is malformed, and the third, valid, is forwarded
C2_Witness ==
  /\ op = "ollamaStream" /\ outcome = "fulfilled"
  /\ Len(wireLines) >= 3
  /\ hasContent(1) /\ isMalformed(2) /\ hasContent(3)
  /\ splitLines = {1}
  /\ delivered = <<JSON_parse(lineText(3)).content>>

\* the text of the increments that carry some, in order
RECURSIVE nonEmptyDeltas(_)
nonEmptyDeltas(incs) ==
  IF incs = <<>> THEN <<>>
  ELSE LET i == Head(incs)
       IN (IF i.choices > 0 /\ i.hasDelta /\ i.content # <<>> THEN <<i.content>> ELSE <<>>)
          \o nonEmptyDeltas(Tail(incs))

\* C3: in OpenAIProvider.streamChatCompletion the strings passed to onChunk
\* are, in order, the non-empty choices[0].delta.content of the increments
\* consumed; an increment without choices, delta or text makes no call and
\* no error (a rejection comes from the SDK only).
C3_OpenAIForwardsNonEmptyDeltas ==
  op = "openaiStream" =>
    /\ delivered = nonEmptyDeltas(SubSeq(server.incs, 1, pos))
    /\ (outcome = "rejected" => netFailure # "none")
    /\ (outcome = "fulfilled" => delivered = nonEmptyDeltas(server.incs))

C3_Witness ==
  /\ op = "openaiStream" /\ outcome = "fulfilled"
  /\ server.incs = <<Delta(<<"b">>), NoChoice, Delta(<<"a">>)>>
  /\ delivered = << <<"b">>, <<"a">> >>

\* C4: once the promise of streamChatCompletion has settled, onChunk is not
\* invoked again for that call (both providers).
C4_NoChunkAfterSettle == [][outcome # "pending" => delivered' = delivered]_vars

\* a call rejected after it had delivered a fragment
C4_Witness ==
  /\ op = "ollamaStream" /\ outcome = "rejected" /\ delivered # <<>>
  /\ pos < Len(server.wire)

\* C5: the promise of streamChatCompletion is fulfilled only after the
\* transport signalled end-of-stream, with no chunk or increment left.
C5_FulfilledOnlyAtEndOfStream ==
  (op \in {"ollamaStream", "openaiStream"} /\ outcome = "fulfilled") =>
    /\ eos
    /\ pos = (IF op = "ollamaStream" THEN Len(server.wire) ELSE Len(server.incs))

C5_Witness ==
  /\ op = "ollamaStream" /\ outcome = "fulfilled" /\ eos
  /\ Len(wireLines) >= 3 /\ Len(delivered) >= 2

\* C6: when the body reader was acquired, releaseLock() has been called
\* exactly once when the promise settles, after end-of-stream or after an
\* error of reader.read(); before that it has not been called.
C6_ReaderReleasedOnce ==
  op = "ollamaStream" =>
    /\ (reader = "none" => releases = 0)
    /\ (reader # "none" /\ outcome = "pending" => reader = "locked" /\ releases = 0)
    /\ (reader # "none" /\ outcome # "pending" => reader = "released" /\ releases = 1)

\* the reader released on the error path
C6_Witness ==
  /\ op = "ollamaStream" /\ outcome = "rejected" /\ netFailure = "bodyLost"
  /\ reader = "released" /\ releases = 1

\* C7: on a non-success status or a response without a body the streaming
\* call rejects before the decode loop: no reader, no read, no onChunk.
C7_RejectsBeforeLoop ==
  (op = "ollamaStream" /\ (~server.ok \/ ~server.hasBody)) =>
    /\ reader = "none" /\ ~readCalled /\ pos = 0 /\ delivered = <<>>
    /\ outcome # "fulfilled"
    /\ (pc # "fetch" => pc = "done" /\ outcome = "rejected")
    /\ (outcome = "rejected" /\ netFailure = "none" =>
          error = IF ~server.ok THEN Error(<<"Ollama API error: ", server.statusText>>)
                  ELSE Error(<<"Response body is null">>))

C7_Witness ==
  /\ op = "ollamaStream" /\ server.ok /\ ~server.hasBody
  /\ outcome = "rejected" /\ error = Error(<<"Response body is null">>)

\* C8: every connection failure while the body is read is surfaced as the
\* connection error, whatever the type of the error reader.read() threw.
\* (Violated: only a TypeError is converted.)
C8_ReadFailureIsConnectionError ==
  (op = "ollamaStream" /\ netFailure = "bodyLost" /\ outcome = "rejected")
    => error = Error(ConnectionMessage)

\* C9: listModels has three distinguishable outcomes: the names in the
\* response's order on success, the connection error on connection
\* refusal, a backend error that is not the connection error on a
\* non-success status.
C9_ListModelsOutcomes ==
  (op = "listModels" /\ pc = "done") =>
    /\ (netFailure = "unreachable" =>
          outcome = "rejected" /\ error = Error(ConnectionMessage))
    /\ (netFailure = "none" /\ ~server.ok =>
          /\ outcome = "rejected"
          /\ error = Error(<<"Failed to fetch models: ", server.statusText>>)
          /\ error.message # ConnectionMessage)
    /\ (netFailure = "none" /\ server.ok /\ server.data.parses /\ server.data.hasModels =>
          /\ outcome = "fulfilled"
          /\ Len(result) = Len(server.data.models)
          /\ \A i \in 1..Len(result) : result[i] = server.data.models[i].name)

C9_Witness ==
  /\ op = "listModels" /\ outcome = "fulfilled"
  /\ result = <<"llama3", "codellama">>

\* C10: listModels raises the connection error only when the transport could
\* not reach the endpoint; every other failure is propagated unchanged.
\* (Violated: a response without the models list is a TypeError too.)
C10_ConnectionErrorOnlyWhenUnreachable ==
  (op = "listModels" /\ outcome = "rejected" /\ error.message = ConnectionMessage)
    => netFailure = "unreachable"

\* ------------------------------------------------------------ generateChatCompletion
\* the backend answered the generate call and its answer could be read
generateAnswered ==
  /\ op \in Generates /\ pc = "done" /\ netFailure = "none"
  /\ (op = "ollamaGenerate" => server.ok /\ server.data.parses)

\* the text field of the backend's answer is absent or null
textMissing ==
  IF op = "ollamaGenerate"
    THEN ~server.data.hasMessage \/ server.data.content \in {Undefined, Null}
  ELSE /\ Len(server.data.choices) > 0
       /\ \/ ~server.data.choices[1].hasMessage
          \/ server.data.choices[1].content \in {Undefined, Null}

\* C11: whenever generateChatCompletion of either provider fulfils, the
\* content of the result is a string; when the text field of the backend's
\* answer is absent or null the call fulfils with the content ''.
C11_ContentIsAString ==
  /\ (op \in Generates /\ outcome = "fulfilled") => completion.content.t = "string"
  /\ (generateAnswered /\ (op = "openaiGenerate" => Len(server.data.choices) > 0)
        /\ textMissing)
       => outcome = "fulfilled" /\ completion.content = Str(<<>>)

\* the Ollama answer has a message whose content is null
C11_Witness ==
  /\ op = "ollamaGenerate" /\ outcome = "fulfilled"
  /\ server.data.hasMessage /\ server.data.content = Null
  /\ completion.content = Str(<<>>)

\* C12: OpenAIProvider.generateChatCompletion rejects when the response has
\* no choices and returns no degraded empty result, whereas
\* OllamaProvider.generateChatCompletion fulfils with '' when the message is
\* missing.
C12_NoChoicesRejects ==
  /\ (generateAnswered /\ op = "openaiGenerate" /\ Len(server.data.choices) = 0)
       => /\ outcome = "rejected"
          /\ error = Error(<<"No choices returned from OpenAI API">>)
          /\ completion = NoCompletion
  /\ (generateAnswered /\ op = "ollamaGenerate" /\ ~server.data.hasMessage)
       => /\ outcome = "fulfilled" /\ error = None
          /\ completion.content = Str(<<>>)

C12_Witness ==
  /\ op = "openaiGenerate" /\ pc = "done" /\ netFailure = "none"
  /\ server.data.choices = <<>>
  /\ outcome = "rejected"

\* the texts a message is made of
parts(message) == { message[i] : i \in 1..Len(message) }

\* C13: when the backend answers OllamaProvider.generateChatCompletion with
\* a non-success status the call rejects with a backend error whose message
\* carries the status text; the body is not read, no result is returned and
\* the error is not turned into the connection error.
C13_StatusErrorRejects ==
  (op = "ollamaGenerate" /\ ~server.ok) =>
    /\ ~readCalled /\ pc # "json"
    /\ outcome # "fulfilled" /\ completion = NoCompletion
    /\ (pc = "done" /\ netFailure = "none" =>
          /\ outcome = "rejected"
          /\ error.type = "Error"
          /\ server.statusText \in parts(error.message)
          /\ error.message # ConnectionMessage)

C13_Witness ==
  /\ op = "ollamaGenerate" /\ ~server.ok /\ netFailure = "none"
  /\ outcome = "rejected"
  /\ error = Error(<<"Ollama API error: ", "Not Found">>)

\* ------------------------------------------------------------ streams without text
\* the exchange carries no text: no line of the body (no increment) has a
\* non-empty content
noText ==
  IF op = "ollamaStream" THEN StreamContents = <<>>
  ELSE nonEmptyDeltas(server.incs) = <<>>

\* C14: for both providers a streaming exchange that delivers no text (an
\* empty body, only status frames, only increments without a delta) makes
\* streamChatCompletion fulfil without error and without any onChunk call.
C14_NoTextNoChunk ==
  (op \in Streams /\ server.ok /\ server.hasBody /\ noText) =>
    /\ delivered = <<>>
    /\ (pc = "done" /\ netFailure = "none" => outcome = "fulfilled" /\ error = None)

\* a body of status frames only, read to its end
C14_Witness ==
  /\ op = "ollamaStream" /\ outcome = "fulfilled"
  /\ server.wire = Wire(<< <<"{", "d", "}">>, <<"{", "}">>, <<"{", "d", "}">> >>)
  /\ delivered = <<>>

\* C19: OllamaProvider.generateChatCompletion returns the finishReason
\* 'stop' exactly when done of the response is true, and none when done is
\* false or missing.
C19_StopIffDone ==
  (op = "ollamaGenerate" /\ outcome = "fulfilled") =>
    /\ (completion.finishReason = Str(<<"stop">>) <=> server.data.done = Bool(TRUE))
    /\ (server.data.done \in {Bool(FALSE), Undefined} => completion.finishReason = Undefined)

C19_Witness ==
  /\ op = "ollamaGenerate" /\ outcome = "fulfilled"
  /\ server.data.done = Bool(FALSE)
  /\ completion.content = Str(<<"a", "b">>)
  /\ completion.finishReason = Undefined

\* ------------------------------------------------------------ what is sent
Completions == Generates \cup Streams

\* the messages and the temperature of the request that was sent
sentMessages == sent.body.messages
sentTemperature ==
  IF op \in {"ollamaGenerate", "ollamaStream"} THEN sent.body.options.temperature
  ELSE sent.body.temperature

\* C18: the messages sent to the backend by generateChatCompletion and
\* streamChatCompletion are the request's messages, in the same order and
\* of the same length, none dropped, duplicated or reordered; the Ollama
\* adapter sends for each message exactly the pair {role, content}.
C18_MessagesSentInOrder ==
  op \in Completions =>
    /\ (pc # "fetch" => sent # NoRequest)
    /\ (sent # NoRequest =>
          /\ Len(sentMessages) = Len(request.messages)
          /\ \A i \in 1..Len(sentMessages) :
               /\ sentMessages[i].role = request.messages[i].role
               /\ sentMessages[i].content = request.messages[i].content
               /\ (op \in {"ollamaGenerate", "ollamaStream"} =>
                     DOMAIN sentMessages[i] = {"role", "content"}))

\* two different messages, the second with a further property
C18_Witness ==
  /\ op = "ollamaStream" /\ outcome = "fulfilled"
  /\ request.messages =
       << Message("user", <<"b">>),
          [role |-> "assistant", content |-> <<"a", "b">>, timestamp |-> "t1"] >>
  /\ sentMessages = << Message("user", <<"b">>), Message("assistant", <<"a", "b">>) >>

\* C20: in all four completion operations the temperature sent equals the
\* request's temperature whenever it is set, the value 0 included, and
\* equals 0.7 only when it is unset.
C20_TemperatureSent ==
  (op \in Completions /\ sent # NoRequest) =>
    /\ (request.temperature.t = "number" => sentTemperature = request.temperature)
    /\ (request.temperature = Undefined => sentTemperature = Num("0.7"))
    /\ (sentTemperature = Num("0.7") => request.temperature \in {Undefined, Num("0.7")})

\* the temperature 0 is sent as 0
C20_Witness ==
  /\ op = "ollamaGenerate" /\ outcome = "fulfilled"
  /\ request.temperature = Num("0")
  /\ sentTemperature = Num("0")

\* ------------------------------------------------------------ calls one after another
\* the calls that have finished, the earlier ones first
finishedCalls == IF pc = "done" THEN Append(log, finished) ELSE log

\* two calls were given the same request and the transport behaved the
\* same way: the same answer, cut into chunks at the same lines, lost or
\* not at the same point
sameExchange(a, b) ==
  /\ a.op = b.op /\ a.request = b.request /\ a.server = b.server
  /\ a.netFailure = b.netFailure /\ a.pos = b.pos /\ a.splitLines = b.splitLines

\* C16: the provider holds no request-scoped state between calls: with a
\* deterministic transport the result of generateChatCompletion and the
\* fragments of streamChatCompletion for a given request are the same
\* whatever calls were made before; two identical calls give identical
\* results.
C16_NoStateBetweenCalls ==
  \A i \in 1..Len(finishedCalls) : \A j \in 1..Len(finishedCalls) :
    LET a == finishedCalls[i]
        b == finishedCalls[j]
    IN sameExchange(a, b) =>
         /\ a.sent = b.sent
         /\ a.outcome = b.outcome
         /\ a.delivered = b.delivered
         /\ a.completion = b.completion
         /\ a.result = b.result
         /\ (a.netFailure = "none" => a.error = b.error)

\* the same stream call made twice; the first left a byte in its decoder
C16_Witness ==
  /\ Len(log) = 1 /\ pc = "done"
  /\ op = "ollamaStream" /\ sameExchange(log[1], finished)
  /\ outcome = "fulfilled" /\ pending # <<>>
  /\ delivered = << <<"a">> >>

\* C17: after any sequence of listModels, generateChatCompletion and
\* streamChatCompletion calls, successful or failed, getProviderName()
\* returns the same constant name and getModel() the model given at
\* construction; no operation changes model, baseUrl or client.
C17_NameAndModelConstant ==
  /\ getProviderName(instance) =
       (IF ClassOf(op) = "OllamaProvider" THEN "Ollama" ELSE "OpenAI")
  /\ \A i \in 1..Len(log) : ClassOf(log[i].op) = ClassOf(op)
  /\ getModel(instance) = config.model
  /\ instance.model = config.model
  /\ (ClassOf(op) = "OllamaProvider" => instance.baseUrl = config.baseUrl)
  /\ (ClassOf(op) = "OpenAIProvider" =>
        instance.client = [apiKey |-> config.apiKey, baseURL |-> config.baseUrl])

\* a failed call and then a successful one
C17_Witness ==
  /\ Len(log) = 1 /\ log[1].outcome = "rejected"
  /\ outcome = "fulfilled" /\ op = "ollamaGenerate"
  /\ getModel(instance) = "codellama"

\* ------------------------------------------------------------ two calls at once
\* The contents, in order, of the valid lines among ls that carry text and
\* that a call which has read p bytes, with chunk boundaries inside the
\* lines cut, has read completely and in one chunk; ls are the lines from
\* line j on and start bytes precede them.
RECURSIVE ownContents(_, _, _, _, _)
ownContents(ls, j, start, p, cut) ==
  IF ls = <<>> THEN <<>>
  ELSE LET end == start + Len(Head(ls))
           d == JSON_parse(Utf8Decode(Head(ls)).text)
       IN (IF end <= p /\ j \notin cut /\ d.ok /\ d.hasMessage /\ d.content # <<>>
             THEN <<d.content>> ELSE <<>>)
          \o ownContents(Tail(ls), j + 1, end + 1, p, cut)

\* the fragments of its own response a call has received so far
ownFragments(call) ==
  IF op = "ollamaStream"
    THEN ownContents(split(call.server.wire), 1, 0, call.pos, call.splitLines)
  ELSE nonEmptyDeltas(SubSeq(call.server.incs, 1, call.pos))

\* C15: when two streamChatCompletion calls run at once on one provider
\* instance, under every interleaving the onChunk of each call receives
\* exactly the fragments of its own response, in order, and never the
\* other's; the calls share no buffer, reader or decoder.
C15_CallsAreIsolated ==
  \A c \in Callers :
       /\ calls[c].delivered = ownFragments(calls[c])
       /\ calls[c].outcome = "fulfilled" =>
            calls[c].pos = (IF op = "ollamaStream" THEN Len(calls[c].server.wire)
                            ELSE Len(calls[c].server.incs))
       /\ calls[c].outcome = "rejected" =>
            (calls[c].netFailure # "none" \/ ~calls[c].server.ok)

\* call 2 ran from its first chunk to its end while call 1 was inside a
\* character
C15_Witness ==
  /\ op = "ollamaStream"
  /\ calls[1].pc = "read" /\ decoders[1] = <<"xC3">>
  /\ calls[1].delivered = << <<"a">> >>
  /\ calls[2].outcome = "fulfilled"
  /\ calls[2].delivered = << <<"E9">>, <<"b">> >>

\* ------------------------------------------------------------ decoding across chunks
\* C21: in OllamaProvider.streamChatCompletion the decoder keeps its state
\* across chunks: for every split of the response bytes into chunks, also
\* inside a multi-byte character, the texts decoded per chunk, concatenated,
\* are the decoding of the bytes read so far, and of the whole body once it
\* was read to its end; no character is corrupted at a chunk boundary.
C21_DecodingIgnoresChunking ==
  (op = "ollamaStream" /\ reader # "none") =>
    /\ decoded = Utf8Decode(SubSeq(server.wire, 1, pos)).text
    /\ pending = Utf8Decode(SubSeq(server.wire, 1, pos)).pending
    /\ (outcome = "fulfilled" => decoded = Utf8Decode(server.wire).text)
    /\ (\A i \in 1..Len(server.wire) : server.wire[i] = "xC3" <=>
           (i < Len(server.wire) /\ server.wire[i + 1] = "xA9"))
         => \A i \in 1..Len(decoded) : decoded[i] # ReplacementChar

\* a body with a two-byte character read in chunks that end inside it
C21_Witness ==
  /\ op = "ollamaStream" /\ outcome = "fulfilled"
  /\ server.wire = Wire(<< <<"{", "xC3", "xA9", "}">>, <<"{", "a", "}">> >>)
  /\ splitLines = {1}
  /\ decoded = <<"{", "E9", "}", NL, "{", "a", "}", NL>>

\* ------------------------------------------------------------ whole lines
\* the lines of the body that carry text
textLines == { j \in 1..Len(wireLines) : hasContent(j) }

\* C26: when every chunk of OllamaProvider.streamChatCompletion holds whole
\* lines only, the strings passed to onChunk are, in order and one call per
\* line, the non-empty message.content of the valid JSON lines of the
\* stream; blank and unparsable lines and lines without content make no call.
C26_WholeLinesForwarded ==
  (op = "ollamaStream" /\ reader # "none" /\ splitLines = {}) =>
    /\ delivered = validContents(split(Utf8Decode(SubSeq(server.wire, 1, pos)).text))
    /\ (outcome = "fulfilled" =>
          /\ delivered = StreamContents
          /\ Len(delivered) = Cardinality(textLines))

\* a line with text, a blank line and a second line with text, none cut
C26_Witness ==
  /\ op = "ollamaStream" /\ outcome = "fulfilled" /\ splitLines = {}
  /\ server.wire = Wire(<< <<"{", "a", "}">>, <<SP>>, <<"{", "xC3", "xA9", "}">> >>)
  /\ delivered = << <<"a">>, <<"E9">> >>

\* ------------------------------------------------------------ a callback that throws
\* C27: when the caller's onChunk throws during streamChatCompletion, both
\* providers reject the call with that exception and deliver no later
\* fragment; the exception is not swallowed as if it were a malformed line.
\* (Violated by OllamaProvider: onChunk is called inside the try block whose
\* catch swallows everything.)
C27_CallbackExceptionRejects ==
  op \in Streams =>
    \A i \in 1..Len(delivered) :
      delivered[i] \in throwsOn =>
        /\ i = Len(delivered)
        /\ outcome = "rejected"
        /\ error = CallbackError

\* ------------------------------------------------------------ the conversation
\* the turns handled before position n and after the last clear before it
sinceClear(n) ==
  LET clears == {i \in 1..n : turns[i].kind = "clear"}
      last == IF clears = {} THEN 0 ELSE CHOOSE i \in clears : \A j \in clears : j <= i
  IN SubSeq(turns, last + 1, n)

\* the message of a turn: what the user sent, or the fragments the provider
\* delivered for the request, joined
turnMessage(t) ==
  IF t.kind = "user" THEN Message("user", handlers[t.req].message)
  ELSE Message("assistant", Flatten(handlers[t.req].chunks))

\* C22: the request of every sendMessage is the system prompt, then every
\* user and assistant message of the conversation so far (the turns handled
\* since the last clear) in the order the turns happened, and it ends with
\* the user message just sent.
C22_RequestCarriesConversation ==
  \A r \in 1..Len(handlers) :
    LET conversation == sinceClear(handlers[r].at)
        n == Len(handlers[r].messages)
    IN /\ handlers[r].messages =
            <<SystemPrompt>> \o [i \in 1..Len(conversation) |-> turnMessage(conversation[i])]
       /\ handlers[r].messages[n] = Message("user", handlers[r].message)

\* a second request that carries the first exchange before its own message
C22_Witness ==
  /\ Len(handlers) = 2
  /\ handlers[2].messages =
       <<SystemPrompt, Message("user", <<"p">>), Message("assistant", <<"x", "y">>),
         Message("user", <<"q">>)>>

\* C23: after a clearChat is handled, at whatever moment (also while a
\* response is streaming), the request of the next sendMessage consists of
\* the system prompt and the new user message only.
\* (Violated: a response that was streaming when the clear was handled is
\* appended to the emptied history when it completes.)
C23_ClearStartsFresh ==
  \A r \in 1..Len(handlers) :
    LET at == handlers[r].at
    IN (\E c \in 1..(at - 1) :
          /\ turns[c].kind = "clear"
          /\ \A i \in (c + 1)..(at - 1) : turns[i].kind # "user")
       => handlers[r].messages = <<SystemPrompt, Message("user", handlers[r].message)>>

\* ------------------------------------------------------------ the posts of a request
\* the messages the extension is to post for request r, in order
expectedPosts(r) ==
  LET h == handlers[r]
  IN <<[type |-> "userMessage", text |-> h.message],
       [type |-> "startAssistantMessage", text |-> <<>>]>>
     \o [i \in 1..Len(h.chunks) |-> [type |-> "assistantChunk", text |-> h.chunks[i]]]

\* C28: for every sendMessage handled with a provider and a view, the
\* extension posts, in order, one userMessage, one startAssistantMessage,
\* one assistantChunk per onChunk call, and then exactly one terminal
\* message: assistantComplete if the provider's promise fulfilled, error if
\* it rejected; nothing is posted for the request afterwards.
C28_PostsInOrder ==
  \A r \in 1..Len(handlers) :
    LET h == handlers[r]
        n == Len(expectedPosts(r))
    IN IF h.state = "streaming" THEN shown(h.posts) = expectedPosts(r)
       ELSE /\ Len(h.posts) = n + 1
            /\ SubSeq(shown(h.posts), 1, n) = expectedPosts(r)
            /\ h.posts[n + 1].type =
                 IF h.state = "fulfilled" THEN "assistantComplete" ELSE "error"

\* one request answered with two fragments, another that was rejected
C28_Witness ==
  /\ Len(handlers) = 2
  /\ handlers[1].state = "fulfilled" /\ Len(handlers[1].chunks) = 2
  /\ handlers[2].state = "rejected" /\ Len(handlers[2].chunks) = 1
  /\ toWebview = <<>>

\* ------------------------------------------------------------ one request at a time
\* the requests whose stream has not settled
streaming == {r \in 1..Len(handlers) : handlers[r].state = "streaming"}

\* C30: at most one streamChatCompletion call is in flight per chat view,
\* and the chunks of two requests never land in the same assistant message
\* element.
\* (Violated: the Enter key sends while the Send button is disabled.)
C30_OneStreamInFlight ==
  /\ Cardinality(streaming) <= 1
  /\ \A i \in 1..Len(webview.messagesDiv) : Cardinality(webview.messagesDiv[i].from) <= 1

\* ------------------------------------------------------------ every send is answered
\* request r settles, as started provider calls are taken to do
Settles(r) == r \in 1..Len(handlers) /\ (StreamFulfils(r) \/ StreamRejects(r))

\* the event loops of the extension host and of the webview deliver every
\* message, and every started provider call settles; the user is free not
\* to act
SpecChatFair ==
  /\ SpecChat
  /\ WF_vars(ExtensionReceives)
  /\ WF_vars(WebviewReceives)
  /\ \A r \in 1..MaxSends : WF_vars(Settles(r))

\* C29: after the webview has posted sendMessage and disabled its Send
\* button, it eventually receives assistantComplete or error and enables the
\* button again.
\* (Violated: without a provider _handleUserMessage returns and posts
\* nothing to the webview.)
C29_EverySendAnswered == webview.sendDisabled ~> ~webview.sendDisabled

\* ------------------------------------------------------------ the installed provider
\* run i built an OllamaProvider
isOllama(i) == inits[i].provider # Undefined /\ inits[i].provider.v[1].class = "OllamaProvider"

\* C24: once every run of initializeLLMProvider has finished, the active
\* provider is the one of the most recent configuration (when the run for
\* it installed one), and a run that started earlier never calls
\* setProvider after a run that started later did.
\* (Violated: the listener does not wait for a run, and a run that awaits
\* its Ollama probe installs its provider whenever the probe fulfils.)
C24_LatestConfigurationWins ==
  /\ (inits # <<>> /\ \A i \in 1..Len(inits) : inits[i].pc = "done") =>
       LET last == inits[Len(inits)]
       IN (last.settings = settings /\ last.order > 0)
            => chatViewProvider.provider = last.provider
  /\ \A i, j \in 1..Len(inits) :
       (i < j /\ inits[i].order > 0 /\ inits[j].order > 0) => inits[i].order < inits[j].order

\* C25: initializeLLMProvider installs an OllamaProvider only after its
\* listModels() probe has fulfilled; when the probe rejects, setProvider is
\* not called and an error is reported.
C25_InstallsAfterProbe ==
  /\ \A i \in 1..Len(inits) :
       isOllama(i) =>
         /\ inits[i].order > 0 => inits[i].probe = "fulfilled"
         /\ inits[i].probe = "rejected" =>
              /\ inits[i].order = 0
              /\ \E n \in 1..Len(inits[i].shown) : inits[i].shown[n].kind = "showErrorMessage"
              /\ \E n \in 1..Len(window) : window[n] \in
                   {inits[i].shown[k] : k \in 1..Len(inits[i].shown)}
  /\ (chatViewProvider.provider # Undefined
        /\ chatViewProvider.provider.v[1].class = "OllamaProvider") =>
       \E i \in 1..Len(inits) :
         /\ inits[i].provider = chatViewProvider.provider
         /\ inits[i].probe = "fulfilled"

\* one probe was rejected and reported, a later one fulfilled and its
\* provider is the active one
C25_Witness ==
  /\ Len(inits) = 2
  /\ isOllama(1) /\ inits[1].probe = "rejected" /\ chatViewProvider.provider # inits[1].provider
  /\ isOllama(2) /\ inits[2].probe = "fulfilled" /\ chatViewProvider.provider = inits[2].provider

\* ------------------------------------------------------------ the reply in the history
\* the assistant messages of a history
assistantMessages(history) == SelectSeq(history, LAMBDA m : m.role = "assistant")

\* the text of the assistantChunk messages posted for request r, joined
postedText(r) ==
  LET chunks == SelectSeq(handlers[r].posts, LAMBDA m : m.type = "assistantChunk")
  IN Flatten([i \in 1..Len(chunks) |-> chunks[i].text])

\* the stream of request r settles in this step, in the given way
settlesAs(r, state) == handlers[r].state = "streaming" /\ handlers'[r].state = state

\* C31: an assistant message is appended to the conversation history only
\* when streamChatCompletion fulfilled, once per request, and its content is
\* the chunks passed to the callback for that request, joined in delivery
\* order (the text posted to the webview); when the stream rejects no
\* assistant message is appended.
C31_ReplyAppendedOnFulfil ==
  [][LET history == chatViewProvider.history
         after == chatViewProvider'.history
     IN /\ \A r \in 1..Len(handlers) :
             /\ settlesAs(r, "fulfilled") =>
                  /\ after = Append(history,
                                    Message("assistant", Flatten(handlers[r].chunks)))
                  /\ after[Len(after)].content = postedText(r)
             /\ settlesAs(r, "rejected") => after = history
             /\ handlers[r].state # "streaming" => handlers'[r].state = handlers[r].state
        /\ Len(assistantMessages(after)) > Len(assistantMessages(history)) =>
             \E r \in 1..Len(handlers) : settlesAs(r, "fulfilled")
    ]_vars

\* a reply of two fragments is in the history, and a stream that failed
\* after one fragment has left none
C31_Witness ==
  /\ Len(handlers) = 2
  /\ handlers[1].state = "rejected" /\ Len(handlers[1].chunks) = 1
  /\ handlers[2].state = "fulfilled"
  /\ chatViewProvider.history =
       <<Message("user", <<"p">>), Message("user", <<"q">>),
         Message("assistant", <<"x", "y">>)>>

\* ------------------------------------------------------------ the shape of the history
\* user and assistant messages alternate, from a user message to an
\* assistant message (or there is none)
alternates(history) ==
  /\ Len(history) % 2 = 0
  /\ \A i \in 1..Len(history) :
       history[i].role = IF i % 2 = 1 THEN "user" ELSE "assistant"

\* C32: whenever no request is in flight, the conversation history is a
\* sequence of alternating user and assistant messages that starts with a
\* user message and ends with an assistant message, or is empty.
\* (Violated: the user message of a request whose stream fails stays in the
\* history without a reply.)
C32_HistoryAlternates ==
  streaming = {} => alternates(chatViewProvider.history)

\* ------------------------------------------------------------ a run that installs nothing
\* in this step a run of initializeLLMProvider ends without a provider: it
\* found no usable API key or an unknown provider name, or its probe rejects
endsWithoutProvider ==
  \/ /\ Len(inits') = Len(inits) + 1
     /\ inits'[Len(inits')].pc = "done" /\ inits'[Len(inits')].order = 0
  \/ \E i \in 1..Len(inits) : inits[i].probe = "pending" /\ inits'[i].probe = "rejected"

\* the provider that was installed last by the given runs (Undefined: none)
lastInstalled(runs) ==
  LET installed == {i \in runs : inits[i].order > 0}
  IN IF installed = {} THEN Undefined
     ELSE inits[CHOOSE i \in installed :
                  \A j \in installed : inits[j].order <= inits[i].order].provider

\* every request was served by the provider installed last before it
servedByInstalled ==
  \A r \in 1..Len(handlers) :
    /\ handlers[r].provider # Undefined
    /\ handlers[r].provider = lastInstalled(handlers[r].after)

\* C33: when a run of initializeLLMProvider does not install a provider
\* (OpenAI without a usable API key, a rejected Ollama probe, an unsupported
\* provider name), the provider installed before stays the chat view's
\* provider, and the sendMessage requests that follow are served by it.
C33_ProviderKept ==
  [][/\ endsWithoutProvider => chatViewProvider'.provider = chatViewProvider.provider
     /\ servedByInstalled'
    ]_vars

\* an OpenAIProvider was installed, the configuration then named Ollama and
\* the probe was rejected, and a request sent after that was served by the
\* OpenAIProvider
C33_Witness ==
  /\ Len(inits) = 2
  /\ inits[1].order = 1 /\ inits[1].provider.v[1].class = "OpenAIProvider"
  /\ inits[2].probe = "rejected"
  /\ Len(handlers) = 1
  /\ handlers[1].after = {1, 2}
  /\ handlers[1].provider = inits[1].provider
  /\ handlers[1].state = "fulfilled"

====
